---- MODULE Spec2Model ----
(***************************************************************************)
(* State-machine model of the AutoAD command runner and orchestrator:      *)
(*   JobStore       (src/ad_command_runner.py)  the SQLite ledger          *)
(*   CommandRunner  (src/ad_command_runner.py)  the process supervisor     *)
(*   Orchestrator   (src/orchestrator_and_parsers.py)  run/analyze/rules   *)
(* One asyncio event-loop thread runs the coroutines; a synchronous        *)
(* stretch of code between two awaits runs without any other coroutine of  *)
(* the loop in between (LoopBusy).  The callers' thread (web_ui.py) runs   *)
(* create_job and add_listener at any time.                                *)
(***************************************************************************)
EXTENDS Integers, Sequences, FiniteSets, TLC

VARIABLES
    jobs,       \* table jobs: jobs[id] is the row with AUTOINCREMENT id
    outputs,    \* table outputs: outputs[id] is the row with AUTOINCREMENT id
    logs,       \* logs[job_id]: the lines of logs_dir/job_<id>.log
    listeners,  \* CommandRunner._listeners: job_id -> list of callbacks
    received,   \* received[cb]: the events callback cb was called with
    tasks,      \* the coroutines run_job / _run_and_process on the loop
    clock,      \* what time.time() returns
    sessions,   \* SessionStore.sessions
    dependencies,  \* Orchestrator.dependencies: parent job id -> child ids
    auto_exploit,  \* Orchestrator.auto_exploit.allow
    scheduled,  \* job ids of the pipeline tasks created by schedule_job
                \* that the loop has not started yet, oldest first
    conn        \* the sqlite3 connection shared by the threads

vars == <<jobs, outputs, logs, listeners, received, tasks,
          clock, sessions, dependencies, auto_exploit, scheduled, conn>>

(* ------------------------------ bounds --------------------------------- *)
MaxJobs == 2        \* rows of the jobs table
MaxTasks == 2       \* run_job / _run_and_process calls (Spec)
MaxLines == 1       \* lines one process writes, both pipes together (Spec)
MaxRunLines == 2    \* the same, for the single call of SpecRun and SpecListen
MaxListeners == 2   \* add_listener calls (SpecListen)
MaxOutputs == 3     \* append_output calls (SpecStore, SpecOutputs)
MaxClock == 1       \* readings of the clock after the first (SpecStore)

JobIds == 1..MaxJobs
TaskIds == 1..MaxTasks
Streams == {"stdout", "stderr"}
Callbacks == {"cbA", "cbB"}
RaisingCallbacks == {"cbB"}     \* callbacks whose body raises an Exception
ExitCodes == {0, 1}
Commands == {"tool", "missing", "notexec"}

(* Optional values: None is the empty tuple, Some(x) the 1-tuple. *)
None == <<>>
Some(x) == <<x>>
IsNone(o) == Len(o) = 0
Val(o) == o[1]

(* --------------------------- lines and text ---------------------------- *)
(* A raw line is what StreamReader.readline returns: a sequence of byte     *)
(* chunks ending with the separator "LF".                                   *)
DomainLine == <<"Domain: X", "LF">>
BadUtf8 == <<"xFF", "LF">>
Overlong == <<"a*70000", "LF">>
RawLines == {DomainLine, Overlong}              \* what a process writes in Spec
RunRawLines == {DomainLine, BadUtf8, Overlong}  \* in SpecRun
ListenRawLines == {DomainLine, BadUtf8}         \* in SpecListen

ChunkSize(c) == IF c = "a*70000" THEN 70000 ELSE IF c = "Domain: X" THEN 9 ELSE 1

RECURSIVE LineSize(_)
LineSize(raw) == IF raw = <<>> THEN 0 ELSE ChunkSize(Head(raw)) + LineSize(Tail(raw))

(* asyncio's default StreamReader limit, used because create_subprocess_exec
   is called without limit=: readline raises ValueError on a longer line. *)
StreamLimit == 2 ^ 16
TooLong(raw) == LineSize(raw) > StreamLimit

(* line.decode('utf-8', errors='replace') *)
decode(raw) == [i \in 1..Len(raw) |-> IF raw[i] = "xFF" THEN "uFFFD" ELSE raw[i]]

(* .rstrip('\n') *)
RECURSIVE rstrip(_)
rstrip(s) == IF s # <<>> /\ s[Len(s)] = "LF" THEN rstrip(SubSeq(s, 1, Len(s) - 1)) ELSE s

Text(raw) == rstrip(decode(raw))

(* f"[{source}] {text}\n" *)
(* faulty variant of LogLine: the line is written without its source tag *)
LogLineUntagged(source, text) == text \o <<"LF">>

LogLine(source, text) == <<"[", source, "] ">> \o text \o <<"LF">>

NotFoundLine == <<"ERROR: command not found: ", "argv0">>
TimeoutLine == <<"ERROR: timeout after ", "Ns", ", killed process">>
RunErrorLine == <<"ERROR during run: ", "exc">>
ParserErrorLine(name) == <<"PARSER ", name, " ERROR: ", "exc">>

(* ------------------------------ JobStore ------------------------------- *)
(* The sqlite3 connection (check_same_thread=False, line 68) and the write
   each thread is inside: op is the JobStore method, saw what the thread read
   of the transaction state, row the id of the row it inserted, lastrowid the
   cursor's lastrowid, result how its last call ended. *)
Threads == {"request", "loop"}
IdleCall == [pc |-> "idle", op |-> "none", saw |-> FALSE, row |-> 0,
             lastrowid |-> 0, result |-> "none"]
IdleConn == [in_txn |-> FALSE, last_insert_rowid |-> 0,
             th |-> [t \in Threads |-> IdleCall]]

(* faulty variant of create_job: updated_at is left unset *)
CreateJobNoUpdatedAt(js, name, command, meta) ==
    Append(js, [created_at |-> clock, updated_at |-> 0, name |-> name,
                status |-> "pending", exit_code |-> None,
                command |-> command, meta |-> meta])

create_job(js, name, command, meta) ==
    Append(js, [created_at |-> clock, updated_at |-> clock, name |-> name,
                status |-> "pending", exit_code |-> None,
                command |-> command, meta |-> meta])

(* faulty variants of update_job_status: exit_code written only when it is
   given; exit_code never written *)
UpdateKeepsExitCode(js, job_id, status, exit_code, meta) ==
    IF job_id \in DOMAIN js
    THEN [js EXCEPT ![job_id] =
            [@ EXCEPT !.status = status, !.updated_at = clock,
                      !.exit_code = IF IsNone(exit_code) THEN @ ELSE exit_code,
                      !.meta = IF IsNone(meta) THEN @ ELSE Val(meta)]]
    ELSE js

UpdateDropsExitCode(js, job_id, status, exit_code, meta) ==
    IF job_id \in DOMAIN js
    THEN [js EXCEPT ![job_id] =
            [@ EXCEPT !.status = status, !.updated_at = clock,
                      !.meta = IF IsNone(meta) THEN @ ELSE Val(meta)]]
    ELSE js

(* exit_code and meta are Optional: exit_code is always written (None is
   stored as NULL), meta only when it is given. *)
update_job_status(js, job_id, status, exit_code, meta) ==
    IF job_id \in DOMAIN js
    THEN [js EXCEPT ![job_id] =
            [@ EXCEPT !.status = status, !.updated_at = clock,
                      !.exit_code = exit_code,
                      !.meta = IF IsNone(meta) THEN @ ELSE Val(meta)]]
    ELSE js

append_output(outs, job_id, source, line) ==
    Append(outs, [job_id |-> job_id, source |-> source, line |-> line])

(* cur.lastrowid after the INSERT of create_job: the id of the new row *)
lastrowid(js) == Len(js)

get_job(js, job_id) == IF job_id \in DOMAIN js THEN Some(js[job_id]) ELSE None

SelectIds(outs, job_id) == {i \in DOMAIN outs : outs[i].job_id = job_id}

RECURSIVE SortedSeq(_)
SortedSeq(S) ==
    IF S = {} THEN <<>>
    ELSE LET m == CHOOSE x \in S : \A y \in S : x <= y
         IN <<m>> \o SortedSeq(S \ {m})

(* SELECT * FROM jobs ORDER BY created_at DESC LIMIT ?: the ids of the rows
   returned; rows with equal created_at are taken in id order *)
ListLimit == 100
RECURSIVE NewestFirst(_, _)
NewestFirst(js, ids) ==
    IF ids = {} THEN <<>>
    ELSE LET m == CHOOSE x \in ids : \A y \in ids :
                      \/ js[x].created_at > js[y].created_at
                      \/ js[x].created_at = js[y].created_at /\ x <= y
         IN <<m>> \o NewestFirst(js, ids \ {m})

list_jobs(js, limit) ==
    LET all == NewestFirst(js, DOMAIN js)
    IN [k \in 1..(IF Len(all) < limit THEN Len(all) ELSE limit) |-> js[all[k]] @@ [id |-> all[k]]]

(* faulty variant of fetch_outputs: ORDER BY id DESC *)
FetchNewestFirst(outs, job_id) ==
    LET ids == SortedSeq(SelectIds(outs, job_id))
    IN [k \in 1..Len(ids) |-> [id |-> ids[Len(ids) + 1 - k], job_id |-> job_id,
                               source |-> outs[ids[Len(ids) + 1 - k]].source,
                               line |-> outs[ids[Len(ids) + 1 - k]].line]]

(* SELECT * FROM outputs WHERE job_id=? ORDER BY id ASC *)
fetch_outputs(outs, job_id) ==
    LET ids == SortedSeq(SelectIds(outs, job_id))
    IN [k \in 1..Len(ids) |-> [id |-> ids[k], job_id |-> job_id,
                               source |-> outs[ids[k]].source,
                               line |-> outs[ids[k]].line]]

(* ---------------------------- CommandRunner ---------------------------- *)
Event(job_id, source, line) == [job_id |-> job_id, source |-> source, line |-> line]

add_listener(ls, job_id, cb) == [ls EXCEPT ![job_id] = Append(@, cb)]

(* the try/except Exception: pass around cb(event), lines 159-162 *)
UncaughtListenerError == FALSE
CatchesListenerError == TRUE

(* the loop of _notify: every callback of the list is called once, in list
   order; the loop ends early only on an exception that is not caught *)
RECURSIVE Deliver(_, _, _)
Deliver(rc, cbs, ev) ==
    IF cbs = <<>> THEN rc
    ELSE LET called == [rc EXCEPT ![Head(cbs)] = Append(@, ev)]
         IN IF Head(cbs) \in RaisingCallbacks /\ ~CatchesListenerError
            THEN called
            ELSE Deliver(called, Tail(cbs), ev)

(* self._listeners.get(job_id, []) *)
ListenersOf(ls, job_id) == IF job_id \in DOMAIN ls THEN ls[job_id] ELSE <<>>

(* faulty variant of _notify: the callbacks of every job id are called *)
BroadcastNotify(rc, ls, job_id, source, line) ==
    LET RECURSIVE All(_)
        All(S) == IF S = {} THEN <<>>
                  ELSE LET j == CHOOSE x \in S : \A y \in S : x <= y
                       IN ls[j] \o All(S \ {j})
    IN Deliver(rc, All(DOMAIN ls), Event(job_id, source, line))

_notify(rc, ls, job_id, source, line) ==
    Deliver(rc, ListenersOf(ls, job_id), Event(job_id, source, line))

(* _notify lets an exception of a callback out to _read_stream *)
NotifyRaises(ls, job_id) ==
    /\ ~CatchesListenerError
    /\ \E i \in DOMAIN ListenersOf(ls, job_id) : ListenersOf(ls, job_id)[i] \in RaisingCallbacks

(* --------------------------- analyzer registry ------------------------- *)
(* The registered parsers, in registration order (dict order of all()). *)
ParserNames == <<"nmap_xml", "impacket_getnp", "crackmapexec_json", "enum4linux",
                 "ldapdomaindump_zip", "bloodhound_zip", "impacket_secretsdump",
                 "rdp_check">>

Result(v) == [kind |-> "result", value |-> v]
NoSignal == [kind |-> "none", value |-> <<>>]
Raises == [kind |-> "raise", value |-> <<>>]

StdoutLines(outs) == SelectSeq(outs, LAMBDA o : o.source = "stdout")
HasChunk(outs, c) == \E k \in DOMAIN outs : \E i \in DOMAIN outs[k].line : outs[k].line[i] = c
NonEmptyText(outs) == \E k \in DOMAIN outs : outs[k].line # <<>>

(* re.search(r"Domain\s*:\s*(\S+)", text) on the joined stdout lines *)
parser_enum4linux(outs) ==
    IF ~NonEmptyText(StdoutLines(outs)) THEN NoSignal
    ELSE IF HasChunk(StdoutLines(outs), "Domain: X") THEN Result([domain |-> "X"])
    ELSE NoSignal

(* The texts a tool can print that some parser or rule reacts to.  A text is
   one chunk; what a parser makes of it is given chunk by chunk. *)
XmlOneHost == "<nmaprun>h1: 445 open, 80 open</nmaprun>"
XmlThreeHosts == "<nmaprun>h1: 88 open; h2: 445 closed, 80 open; h3: 389 open, 22 open</nmaprun>"
AsrepText == "$krb5asrep$23$u@DOM"
CmeCredText == "{target: h1, auth: {success: true, username: u, password: p}}"
CmeNoPassText == "{target: h1, auth: {success: true, username: u}}"
CmeBadAuthText == "{auth: x}"

Port(n, state) == [port |-> n, state |-> state, service |-> "none"]

(* ET.fromstring and the loop over root.findall('host'), lines 192-214 *)
XmlHosts(doc) ==
    IF doc = XmlOneHost
    THEN <<[ip |-> "h1", ports |-> <<Port(445, "open"), Port(80, "open")>>]>>
    ELSE <<[ip |-> "h1", ports |-> <<Port(88, "open")>>],
           [ip |-> "h2", ports |-> <<Port(445, "closed"), Port(80, "open")>>],
           [ip |-> "h3", ports |-> <<Port(389, "open"), Port(22, "open")>>]>>

IsXmlDoc(line) == Len(line) = 1 /\ line[1] \in {XmlOneHost, XmlThreeHosts}

(* '\n'.join(stdout_lines).strip() parses as XML exactly when the lines that
   are not blank are one document *)
parser_nmap_xml(outs) ==
    LET nonblank == SelectSeq(StdoutLines(outs), LAMBDA o : o.line # <<>>)
    IN IF Len(nonblank) = 1 /\ IsXmlDoc(nonblank[1].line)
       THEN Result(XmlHosts(nonblank[1].line[1]))
       ELSE NoSignal

LineHas(line, c) == \E i \in DOMAIN line : line[i] = c

parser_impacket_getnp(outs) ==
    LET hits == SelectSeq(StdoutLines(outs), LAMBDA o : LineHas(o.line, AsrepText))
    IN IF hits = <<>> THEN NoSignal
       ELSE Result([asreps |-> [i \in DOMAIN hits |-> [line |-> hits[i].line]]])

(* json.loads(line) and the reading of the object, lines 239-249: a line
   that is no JSON object is skipped, an object whose auth is not an object
   makes auth.get raise AttributeError *)
CredOf(line) ==
    IF line = <<CmeCredText>>
    THEN <<[ip |-> "h1", username |-> Some("u"), password |-> Some("p")]>>
    ELSE IF line = <<CmeNoPassText>>
    THEN <<[ip |-> "h1", username |-> Some("u"), password |-> None]>>
    ELSE <<>>

RECURSIVE CredsOf(_)
CredsOf(lines) ==
    IF lines = <<>> THEN <<>> ELSE CredOf(Head(lines).line) \o CredsOf(Tail(lines))

parser_crackmapexec_json(outs) ==
    LET lines == StdoutLines(outs)
    IN IF \E k \in DOMAIN lines : lines[k].line = <<CmeBadAuthText>> THEN Raises
       ELSE IF CredsOf(lines) = <<>> THEN NoSignal
       ELSE Result([valid_credentials |-> CredsOf(lines)])

(* a line account:rid:lmhash:nthash::: of secretsdump; split(':') gives at
   least four parts and the fourth is 32 hex digits (lines 337-339) *)
SecretsdumpText == "Administrator:500:aad3b435b51404eeaad3b435b51404ee:31d6cfe0d16ae931b73c59d7e0c089c0:::"

parser_impacket_secretsdump(outs) ==
    LET hits == SelectSeq(StdoutLines(outs), LAMBDA o : o.line = <<SecretsdumpText>>)
    IN IF hits = <<>> THEN NoSignal
       ELSE Result([hashes |-> [i \in DOMAIN hits |-> [line |-> hits[i].line]]])

(* The parsers for zip paths and the RDP banner find nothing in these texts. *)
RunParser(name, outs) ==
    CASE name = "nmap_xml" -> parser_nmap_xml(outs)
      [] name = "impacket_getnp" -> parser_impacket_getnp(outs)
      [] name = "crackmapexec_json" -> parser_crackmapexec_json(outs)
      [] name = "enum4linux" -> parser_enum4linux(outs)
      [] name = "impacket_secretsdump" -> parser_impacket_secretsdump(outs)
      [] OTHER -> NoSignal

(* ------------------------------- tasks --------------------------------- *)
IdleTask ==
    [pc |-> "idle", job |-> 0, orch |-> FALSE, timeout |-> FALSE,
     proc |-> "none", code |-> 0, nwritten |-> 0,
     pipe |-> [s \in Streams |-> <<>>],
     rd |-> [s \in Streams |-> "none"],
     cur |-> [s \in Streams |-> <<>>],
     wrote |-> [s \in Streams |-> <<>>],
     ret |-> None, elapsed |-> FALSE, parsed |-> {}, invoked |-> <<>>]

Init ==
    /\ clock = 0
    /\ sessions = <<>>
    /\ dependencies = <<>>
    /\ auto_exploit = FALSE
    /\ scheduled = <<>>
    /\ conn = IdleConn
    /\ jobs = <<>>
    /\ outputs = <<>>
    /\ logs = [j \in JobIds |-> <<>>]
    /\ listeners = [j \in JobIds |-> <<>>]
    /\ received = [cb \in Callbacks |-> <<>>]
    /\ tasks = [t \in TaskIds |-> IdleTask]

(* faulty variant of LoopBusy: a call that has raised, or a pipeline that
   has stopped on an exception, keeps the loop from running anything else *)
LoopStoppedByError ==
    \E t \in DOMAIN tasks :
        \/ tasks[t].pc \in {"raised", "stopped"}
        \/ tasks[t].orch /\ tasks[t].pc \in {"returned", "nojob"}
        \/ \E s \in Streams : tasks[t].rd[s] \in {"persisted", "mirrored"}

(* The loop thread is inside a synchronous stretch of some coroutine: a
   reader between readline and the end of _notify, or _run_and_process
   between the end of run_job and its own end (it awaits nothing there). *)
LoopBusy ==
    \E t \in DOMAIN tasks :
        \/ tasks[t].orch /\ tasks[t].pc \in {"returned", "raised", "nojob"}
        \/ \E s \in Streams : tasks[t].rd[s] \in {"persisted", "mirrored"}

Other(s) == IF s = "stdout" THEN "stderr" ELSE "stdout"

(* ---- the callers' thread ---- *)
CreateJob(command) ==
    /\ Len(jobs) < MaxJobs
    /\ jobs' = create_job(jobs, "job", <<command>>, [phase |-> "discovery"])
    /\ UNCHANGED <<outputs, logs, listeners, received, tasks>>
    /\ UNCHANGED <<clock, sessions, dependencies, auto_exploit, scheduled, conn>>

RECURSIVE SumLen(_, _)
SumLen(f, S) == IF S = {} THEN 0
                ELSE LET j == CHOOSE x \in S : TRUE
                     IN Len(f[j]) + SumLen(f, S \ {j})

AddListener(job_id, cb) ==
    /\ SumLen(listeners, DOMAIN listeners) < MaxListeners
    /\ listeners' = add_listener(listeners, job_id, cb)
    /\ UNCHANGED <<jobs, outputs, logs, received, tasks>>
    /\ UNCHANGED <<clock, sessions, dependencies, auto_exploit, scheduled, conn>>

(* run_job returns value *)
Returned(tk, value) == [tk EXCEPT !.ret = Some(value), !.pc = "returned"]

FreeTask(t) == tasks[t].pc = "idle" /\ \A u \in DOMAIN tasks : u < t => tasks[u].pc # "idle"

(* run_job lines 182-195: load the job, open the logfile, mark running. *)
StartCall(t, job_id, timeout, orch) ==
    LET tk == [tasks[t] EXCEPT !.job = job_id, !.timeout = timeout, !.orch = orch]
    IN /\ ~LoopBusy
       /\ FreeTask(t)
       /\ IF IsNone(get_job(jobs, job_id))
          THEN \* raise ValueError('no such job')
               /\ jobs' = jobs
               /\ tasks' = [tasks EXCEPT ![t] = [tk EXCEPT !.pc = "nojob"]]
          ELSE /\ jobs' = update_job_status(jobs, job_id, "running", None, None)
               /\ tasks' = [tasks EXCEPT ![t] = [tk EXCEPT !.pc = "spawn"]]
       /\ UNCHANGED <<outputs, logs, listeners, received>>
       /\ UNCHANGED <<clock, sessions, dependencies, auto_exploit, conn>>

(* a call made by a caller of the API *)
Start(t, job_id, timeout, orch) ==
    StartCall(t, job_id, timeout, orch) /\ UNCHANGED scheduled

(* the loop starts the oldest task made by schedule_job's create_task *)
StartScheduled(t) ==
    /\ scheduled # <<>>
    /\ StartCall(t, Head(scheduled), FALSE, TRUE)
    /\ scheduled' = Tail(scheduled)

(* a caller awaits runner.run_job(job_id, timeout) *)
RunJob(t, job_id, timeout) == Start(t, job_id, timeout, FALSE)

(* faulty variant of RunAndProcess: run_job is given a timeout *)
RunAndProcessWithTimeout(t, job_id) == Start(t, job_id, TRUE, TRUE)

(* a caller starts orch._run_and_process(job_id): run_job without timeout *)
RunAndProcess(t, job_id) == Start(t, job_id, FALSE, TRUE)

(* run_job lines 197-215: create_subprocess_exec and its outcomes. *)
Spawn(t) ==
    LET tk == tasks[t]
        cmd == jobs[tk.job].command[1]     \* cmd_list[0], the executable
    IN /\ ~LoopBusy
       /\ tk.pc = "spawn"
       /\ CASE cmd = "missing" ->     \* FileNotFoundError
                 /\ outputs' = append_output(outputs, tk.job, "system", NotFoundLine)
                 /\ jobs' = update_job_status(jobs, tk.job, "failed", Some(-1), None)
                 /\ tasks' = [tasks EXCEPT ![t] = Returned(tk, -1)]
            [] cmd = "notexec" ->     \* PermissionError: not caught by run_job
                 /\ tasks' = [tasks EXCEPT ![t] = [tk EXCEPT !.pc = "raised"]]
                 /\ UNCHANGED <<jobs, outputs>>
            [] OTHER ->
                 /\ tasks' = [tasks EXCEPT ![t] =
                        [tk EXCEPT !.pc = "reading", !.proc = "alive",
                                   !.rd = [s \in Streams |-> "wait"]]]
                 /\ UNCHANGED <<jobs, outputs>>
       /\ UNCHANGED <<logs, listeners, received>>
       /\ UNCHANGED <<clock, sessions, dependencies, auto_exploit, scheduled, conn>>

(* ---- the spawned process (environment) ---- *)
(* The process writes a line to one of its pipes; the pipe keeps the lines
   in order until the reader takes them.  After EOF or the end of the reader
   nothing written is seen any more. *)
ProcWrite(t, s, raw, maxlines) ==
    LET tk == tasks[t]
    IN /\ ~LoopBusy
       /\ tk.proc = "alive" /\ tk.rd[s] = "wait"
       /\ tk.nwritten < maxlines
       /\ tasks' = [tasks EXCEPT ![t] = [tk EXCEPT !.pipe[s] = Append(@, raw),
                                                   !.wrote[s] = Append(@, raw),
                                                   !.nwritten = @ + 1]]
       /\ UNCHANGED <<jobs, outputs, logs, listeners, received>>
       /\ UNCHANGED <<clock, sessions, dependencies, auto_exploit, scheduled, conn>>

(* The process exits with code c.  run_job learns of the exit only at
   proc.wait() (line 228), so the exit is placed there; until it happens the
   process keeps running although both pipes are at EOF. *)
ProcExit(t, c) ==
    LET tk == tasks[t]
    IN /\ ~LoopBusy
       /\ tk.proc = "alive" /\ tk.pc = "wait_exit"
       /\ tasks' = [tasks EXCEPT ![t] = [tk EXCEPT !.proc = "exited", !.code = c]]
       /\ UNCHANGED <<jobs, outputs, logs, listeners, received>>
       /\ UNCHANGED <<clock, sessions, dependencies, auto_exploit, scheduled, conn>>

(* The process exits after run_job has raised: nobody awaits it. *)
ProcExitUnawaited(t, c) ==
    LET tk == tasks[t]
    IN /\ ~LoopBusy
       /\ tk.proc = "alive" /\ tk.pc = "raised"
       /\ tasks' = [tasks EXCEPT ![t] = [tk EXCEPT !.proc = "exited", !.code = c]]
       /\ UNCHANGED <<jobs, outputs, logs, listeners, received>>
       /\ UNCHANGED <<clock, sessions, dependencies, auto_exploit, scheduled, conn>>

(* ---- _read_stream, one line: lines 167-175, 176-178, 179 ---- *)
ReadPersist(t, s) ==
    LET tk == tasks[t]
        raw == Head(tk.pipe[s])
    IN /\ ~LoopBusy
       /\ tk.rd[s] = "wait" /\ tk.pipe[s] # <<>>
       /\ IF TooLong(raw)
          THEN \* readline raises ValueError; gather hands it to run_job
               /\ tasks' = [tasks EXCEPT ![t] =
                      [tk EXCEPT !.rd[s] = "raised", !.pipe[s] = <<>>,
                                 !.pc = IF @ = "reading" THEN "raised" ELSE @]]
               /\ UNCHANGED outputs
          ELSE /\ outputs' = append_output(outputs, tk.job, s, Text(raw))
               /\ tasks' = [tasks EXCEPT ![t] = [tk EXCEPT !.rd[s] = "persisted",
                                                           !.cur[s] = Text(raw),
                                                           !.pipe[s] = Tail(@)]]
       /\ UNCHANGED <<jobs, logs, listeners, received>>
       /\ UNCHANGED <<clock, sessions, dependencies, auto_exploit, scheduled, conn>>

ReadMirror(t, s) ==
    LET tk == tasks[t]
    IN /\ tk.rd[s] = "persisted"
       /\ logs' = [logs EXCEPT ![tk.job] = Append(@, LogLine(s, tk.cur[s]))]
       /\ tasks' = [tasks EXCEPT ![t] = [tk EXCEPT !.rd[s] = "mirrored"]]
       /\ UNCHANGED <<jobs, outputs, listeners, received>>
       /\ UNCHANGED <<clock, sessions, dependencies, auto_exploit, scheduled, conn>>

ReadNotify(t, s) ==
    LET tk == tasks[t]
    IN /\ tk.rd[s] = "mirrored"
       /\ received' = _notify(received, listeners, tk.job, s, tk.cur[s])
       /\ tasks' = [tasks EXCEPT ![t] =
              IF NotifyRaises(listeners, tk.job)
              THEN [tk EXCEPT !.rd[s] = "raised", !.cur[s] = <<>>,
                              !.pc = IF @ = "reading" THEN "raised" ELSE @]
              ELSE [tk EXCEPT !.rd[s] = "wait", !.cur[s] = <<>>]]
       /\ UNCHANGED <<jobs, outputs, logs, listeners>>
       /\ UNCHANGED <<clock, sessions, dependencies, auto_exploit, scheduled, conn>>

(* readline returns b'' (lines 168-169): every holder of the write end has
   closed it and the pipe is drained; gather completes with the second EOF *)
ReadEOF(t, s) ==
    LET tk == tasks[t]
    IN /\ ~LoopBusy
       /\ tk.rd[s] = "wait" /\ tk.pipe[s] = <<>>
       /\ tasks' = [tasks EXCEPT ![t] =
              [tk EXCEPT !.rd[s] = "eof",
                         !.pc = IF tk.pc = "reading" /\ tk.rd[Other(s)] = "eof"
                                THEN "wait_exit" ELSE @]]
       /\ UNCHANGED <<jobs, outputs, logs, listeners, received>>
       /\ UNCHANGED <<clock, sessions, dependencies, auto_exploit, scheduled, conn>>

(* wait_for times out (lines 220-222): the readers are cancelled, proc.kill() *)
Timeout(t) ==
    LET tk == tasks[t]
    IN /\ ~LoopBusy
       /\ tk.pc = "reading" /\ tk.timeout
       /\ tasks' = [tasks EXCEPT ![t] =
              [tk EXCEPT !.pc = "killing", !.elapsed = TRUE,
                         !.proc = IF @ = "alive" THEN "killed" ELSE @,
                         !.rd = [s \in Streams |-> IF tk.rd[s] = "wait" THEN "cancelled"
                                                   ELSE tk.rd[s]]]]
       /\ UNCHANGED <<jobs, outputs, logs, listeners, received>>
       /\ UNCHANGED <<clock, sessions, dependencies, auto_exploit, scheduled, conn>>

(* lines 222-226: proc.wait() returns, system line, status and exit_code *)
TimeoutFinishWith(t, status, exit_code) ==
    LET tk == tasks[t]
    IN /\ ~LoopBusy
       /\ tk.pc = "killing"
       /\ outputs' = append_output(outputs, tk.job, "system", TimeoutLine)
       /\ jobs' = update_job_status(jobs, tk.job, status, exit_code, None)
       /\ tasks' = [tasks EXCEPT ![t] = Returned(tk, -1)]
       /\ UNCHANGED <<logs, listeners, received>>
       /\ UNCHANGED <<clock, sessions, dependencies, auto_exploit, scheduled, conn>>

(* faulty variant of TimeoutFinish: the timeout is stored as a failure *)
TimeoutFinishAsFailed(t) == TimeoutFinishWith(t, "failed", Some(-1))
TimeoutFinish(t) == TimeoutFinishWith(t, "timeout", None)

(* the time given as timeout passes while run_job awaits proc.wait() at
   line 228, where no timer is armed *)
DeadlinePasses(t) ==
    LET tk == tasks[t]
    IN /\ tk.pc = "wait_exit" /\ tk.timeout /\ ~tk.elapsed
       /\ tasks' = [tasks EXCEPT ![t] = [tk EXCEPT !.elapsed = TRUE]]
       /\ UNCHANGED <<jobs, outputs, logs, listeners, received>>
       /\ UNCHANGED <<clock, sessions, dependencies, auto_exploit, scheduled, conn>>

(* lines 228-231 *)
WaitExit(t) ==
    LET tk == tasks[t]
    IN /\ ~LoopBusy
       /\ tk.pc = "wait_exit" /\ tk.proc = "exited"
       /\ jobs' = update_job_status(jobs, tk.job,
                     IF tk.code = 0 THEN "finished" ELSE "failed", Some(tk.code), None)
       /\ tasks' = [tasks EXCEPT ![t] = Returned(tk, tk.code)]
       /\ UNCHANGED <<outputs, logs, listeners, received>>
       /\ UNCHANGED <<clock, sessions, dependencies, auto_exploit, scheduled, conn>>

(* ---- _run_and_process after run_job ---- *)
(* faulty variant of MetaWithParser: the meta written back holds this result only *)
MetaOnlyParser(meta, name, pr) == ("parsers" :> (name :> pr))

(* meta.setdefault('parsers', {})[name] = pr *)
MetaWithParser(meta, name, pr) ==
    LET old == IF "parsers" \in DOMAIN meta THEN meta.parsers ELSE <<>>
        new == IF "parsers" \in DOMAIN meta THEN (name :> pr) @@ old ELSE (name :> pr)
    IN ("parsers" :> new) @@ meta

(* faulty variant of AnalyzeOne: the status written back is the one the job had
   when the pipeline started *)
AnalyzeOneStaleStatus(name, st, fetched, job_id) ==
    LET pr == RunParser(name, fetched)
    IN [st EXCEPT
          !.jobs = IF pr.kind = "result"
                   THEN update_job_status(@, job_id, "pending", None,
                            Some(MetaWithParser(@[job_id].meta, name, pr.value)))
                   ELSE @,
          !.parsed = IF pr.kind = "result" THEN @ \cup {name} ELSE @,
          !.results = IF pr.kind # "result" THEN @
                      ELSE IF DOMAIN @ = {} THEN (name :> pr.value)
                      ELSE (name :> pr.value) @@ @,
          !.invoked = Append(@, name)]

(* one turn of the loop of lines 125-136 for parser `name`, on the outputs
   fetched at line 123; st holds the tables, parsed_results (`results`,
   with its keys in `parsed`) and the calls made so far *)
AnalyzeOne(name, st, fetched, job_id) ==
    LET pr == RunParser(name, fetched)
    IN [st EXCEPT
          !.jobs = IF pr.kind = "result"
                   THEN update_job_status(@, job_id, @[job_id].status, None,
                            Some(MetaWithParser(@[job_id].meta, name, pr.value)))
                   ELSE @,
          !.outputs = IF pr.kind = "raise"
                      THEN append_output(@, job_id, "system", ParserErrorLine(name))
                      ELSE @,
          !.parsed = IF pr.kind = "result" THEN @ \cup {name} ELSE @,
          !.results = IF pr.kind # "result" THEN @
                      ELSE IF DOMAIN @ = {} THEN (name :> pr.value)
                      ELSE (name :> pr.value) @@ @,
          !.invoked = Append(@, name)]

(* faulty variant of AnalyzeFrom: the loop ends at the first parser that raises *)
RECURSIVE AnalyzeUntilError(_, _, _, _)
AnalyzeUntilError(i, st, fetched, job_id) ==
    IF i > Len(ParserNames) THEN st
    ELSE IF RunParser(ParserNames[i], fetched).kind = "raise"
    THEN AnalyzeOne(ParserNames[i], st, fetched, job_id)
    ELSE AnalyzeUntilError(i + 1, AnalyzeOne(ParserNames[i], st, fetched, job_id),
                           fetched, job_id)

(* the loop of lines 125-136 from the i-th registered parser on *)
RECURSIVE AnalyzeFrom(_, _, _, _)
AnalyzeFrom(i, st, fetched, job_id) ==
    IF i > Len(ParserNames) THEN st
    ELSE AnalyzeFrom(i + 1, AnalyzeOne(ParserNames[i], st, fetched, job_id), fetched, job_id)

(* ---- the rule table ---- *)
(* faulty variant of AppendChild: the id is appended twice *)
AppendChildTwice(deps, parent_job, job_id) ==
    IF parent_job \in DOMAIN deps
    THEN [deps EXCEPT ![parent_job] = Append(Append(@, job_id), job_id)]
    ELSE IF DOMAIN deps = {} THEN (parent_job :> <<job_id, job_id>>)
    ELSE (parent_job :> <<job_id, job_id>>) @@ deps

(* self.dependencies[parent_job].append(job_id) on a defaultdict(list) *)
AppendChild(deps, parent_job, job_id) ==
    IF parent_job \in DOMAIN deps THEN [deps EXCEPT ![parent_job] = Append(@, job_id)]
    ELSE IF DOMAIN deps = {} THEN (parent_job :> <<job_id>>)
    ELSE (parent_job :> <<job_id>>) @@ deps

(* schedule_job: parent_job = 0 stands for None (both are falsy) *)
schedule_job(st, name, command, meta, parent_job) ==
    LET js == create_job(st.jobs, name, command, meta)
        job_id == lastrowid(js)
    IN [st EXCEPT !.jobs = js,
                  !.dependencies = IF parent_job # 0
                                   THEN AppendChild(@, parent_job, job_id) ELSE @,
                  !.scheduled = Append(@, job_id)]

(* faulty variant of add_session: a session equal to a stored one is dropped *)
AddSessionOnce(ss, session) ==
    LET se == [type |-> session.type, source_job |-> session.source_job,
               details |-> session.details, first_seen |-> clock]
    IN IF \E q \in DOMAIN ss : ss[q] = se THEN ss ELSE Append(ss, se)

(* SessionStore.list: a copy of the list *)
list(ss) == [q \in DOMAIN ss |-> ss[q]]

(* session.setdefault('first_seen', time.time()); self.sessions.append(session) *)
add_session(ss, session) ==
    Append(ss, [type |-> session.type, source_job |-> session.source_job,
                details |-> session.details, first_seen |-> clock])

AdPorts == {88, 389, 636, 3268, 445}

OpenPorts(host) ==
    {host.ports[k].port : k \in {i \in DOMAIN host.ports : host.ports[i].state = "open"}}

(* the five calls of lines 150-154, in order *)
EnumJobs(ip) ==
    <<[name |-> "enum4linux", command |-> <<"enum4linux-ng", "-a", ip>>],
      [name |-> "ldapdomaindump", command |-> <<"ldapdomaindump", ip>>],
      [name |-> "nmap_smb_scripts",
       command |-> <<"nmap", "-p", "445", "--script",
                     "smb-os-discovery,smb-enum-shares,smb-enum-users", ip>>],
      [name |-> "getnpusers",
       command |-> <<"python3", "-m", "impacket.examples.GetNPUsers", "-no-pass", ip>>],
      [name |-> "cme_scan",
       command |-> <<"crackmapexec", "smb", ip, "--shares", "--pass-pol",
                     "--local-auth", "--json">>]>>

RECURSIVE ScheduleAll(_, _, _, _)
ScheduleAll(st, todo, meta, job_id) ==
    IF todo = <<>> THEN st
    ELSE ScheduleAll(schedule_job(st, Head(todo).name, Head(todo).command, meta, job_id),
                     Tail(todo), meta, job_id)

(* faulty variant of NmapHost: a listed port counts whatever its state *)
NmapHostAnyState(st, host, job_id) ==
    IF {host.ports[k].port : k \in DOMAIN host.ports} \cap AdPorts # {}
    THEN ScheduleAll(st, EnumJobs(host.ip),
                     [target |-> host.ip, triggered_by |-> job_id], job_id)
    ELSE st

(* the body of the loop over hosts, lines 144-154 *)
NmapHost(st, host, job_id) ==
    IF OpenPorts(host) \cap AdPorts # {}
    THEN ScheduleAll(st, EnumJobs(host.ip),
                     [target |-> host.ip, triggered_by |-> job_id], job_id)
    ELSE st

RECURSIVE NmapRule(_, _, _)
NmapRule(st, hosts, job_id) ==
    IF hosts = <<>> THEN st
    ELSE NmapRule(NmapHost(st, Head(hosts), job_id), Tail(hosts), job_id)

(* str(n) for the small counts that occur *)
NumStr(n) == <<"0", "1", "2", "3", "4", "5", "6", "7", "8", "9">>[n + 1]

FoundLine(n) == <<"FOUND ", NumStr(n), " AS-REP hashes; stored in sessions">>
CredLine(cred) ==
    <<"Valid credential found: ", cred.ip>> \o cred.username \o cred.password

RECURSIVE AddHashes(_, _, _)
AddHashes(ss, asreps, job_id) ==
    IF asreps = <<>> THEN ss
    ELSE AddHashes(add_session(ss, [type |-> "hash", source_job |-> job_id,
                                    details |-> Head(asreps)]),
                   Tail(asreps), job_id)

(* lines 156-162 *)
GetnpRule(st, asreps, job_id) ==
    IF asreps = <<>> THEN st
    ELSE [st EXCEPT !.sessions = AddHashes(@, asreps, job_id),
                    !.outputs = append_output(@, job_id, "system", FoundLine(Len(asreps)))]

(* faulty variant of _launch_exploits_for_cred: the exploit job is scheduled
   without a parent *)
LaunchUnparented(st, cred, parent_job) ==
    IF IsNone(cred.username) \/ IsNone(cred.password) THEN st
    ELSE schedule_job(st, "psexec",
                      <<"python3", "-m", "impacket.examples.psexec", cred.ip,
                        Val(cred.username), Val(cred.password)>>,
                      [target |-> cred.ip, triggered_by |-> parent_job,
                       cred |-> [u |-> Val(cred.username)]],
                      0)

(* lines 173-180 *)
_launch_exploits_for_cred(st, cred, parent_job) ==
    IF IsNone(cred.username) \/ IsNone(cred.password) THEN st
    ELSE schedule_job(st, "psexec",
                      <<"python3", "-m", "impacket.examples.psexec", cred.ip,
                        Val(cred.username), Val(cred.password)>>,
                      [target |-> cred.ip, triggered_by |-> parent_job,
                       cred |-> [u |-> Val(cred.username)]],
                      parent_job)

(* faulty variant of CmeCred: the exploit is launched whatever the gate says *)
CmeCredUngated(st, cred, job_id, allow) ==
    _launch_exploits_for_cred(
        [st EXCEPT !.sessions = add_session(@, [type |-> "cred",
                                    source_job |-> job_id, details |-> cred]),
                   !.outputs = append_output(@, job_id, "system", CredLine(cred))],
        cred, job_id)

(* the body of the loop over credentials, lines 168-171 *)
CmeCred(st, cred, job_id, allow) ==
    LET st1 == [st EXCEPT !.sessions = add_session(@, [type |-> "cred",
                                           source_job |-> job_id, details |-> cred]),
                          !.outputs = append_output(@, job_id, "system", CredLine(cred))]
    IN IF allow THEN _launch_exploits_for_cred(st1, cred, job_id) ELSE st1

RECURSIVE CmeRule(_, _, _, _)
CmeRule(st, creds, job_id, allow) ==
    IF creds = <<>> THEN st
    ELSE CmeRule(CmeCred(st, Head(creds), job_id, allow), Tail(creds), job_id, allow)

(* _apply_rules(job_id, parsed_results), with self.auto_exploit.allow = allow;
   the call is noted after the parsers' in `invoked` *)
_apply_rules(st, job_id, allow) ==
    LET st0 == [st EXCEPT !.invoked = Append(@, "_apply_rules")]
        st1 == IF "nmap_xml" \in st.parsed
               THEN NmapRule(st0, st.results["nmap_xml"], job_id) ELSE st0
        st2 == IF "impacket_getnp" \in st.parsed
               THEN GetnpRule(st1, st.results["impacket_getnp"].asreps, job_id) ELSE st1
    IN IF "crackmapexec_json" \in st.parsed
       THEN CmeRule(st2, st.results["crackmapexec_json"].valid_credentials, job_id, allow)
       ELSE st2

(* lines 123-138 run by task t when it is at one of the places `pcs` *)
ProcessAt(t, pcs) ==
    LET tk == tasks[t]
        fetched == fetch_outputs(outputs, tk.job)
        st0 == [jobs |-> jobs, outputs |-> outputs, parsed |-> {}, results |-> <<>>,
                invoked |-> <<>>,
                sessions |-> sessions, dependencies |-> dependencies,
                scheduled |-> scheduled]
        st == _apply_rules(AnalyzeFrom(1, st0, fetched, tk.job), tk.job, auto_exploit)
    IN /\ tk.orch /\ tk.pc \in pcs
       /\ jobs' = st.jobs
       /\ outputs' = st.outputs
       /\ sessions' = st.sessions
       /\ dependencies' = st.dependencies
       /\ scheduled' = st.scheduled
       /\ tasks' = [tasks EXCEPT ![t] = [tk EXCEPT !.pc = "done", !.parsed = st.parsed,
                                                   !.invoked = st.invoked]]
       /\ UNCHANGED <<logs, listeners, received>>
       /\ UNCHANGED <<clock, auto_exploit, conn>>

(* faulty variant of Process: the analyzers and the rules also run before
   run_job has awaited the exit of the process and written the final status *)
ProcessBeforeExit(t) == ProcessAt(t, {"returned", "wait_exit"})

(* faulty variant of Process: the analyzers also run while the readers of
   run_job are still at work *)
ProcessWhileReading(t) == ProcessAt(t, {"returned", "reading"})

(* _run_and_process lines 123-138 after run_job has returned: the outputs
   are fetched once, every parser is run on them, the rules are applied.
   Nothing is awaited in between. *)
Process(t) == ProcessAt(t, {"returned"})

(* faulty variant of RunFailed: the error is recorded but the status is
   left as it was *)
RunFailedKeepsStatus(t) ==
    LET tk == tasks[t]
    IN /\ tk.orch /\ tk.pc \in {"raised", "nojob"}
       /\ outputs' = append_output(outputs, tk.job, "system", RunErrorLine)
       /\ tasks' = [tasks EXCEPT ![t] = [tk EXCEPT !.pc = "stopped"]]
       /\ UNCHANGED <<jobs, logs, listeners, received>>
       /\ UNCHANGED <<clock, sessions, dependencies, auto_exploit, scheduled, conn>>

(* _run_and_process lines 118-121: run_job raised *)
RunFailed(t) ==
    LET tk == tasks[t]
    IN /\ tk.orch /\ tk.pc \in {"raised", "nojob"}
       /\ outputs' = append_output(outputs, tk.job, "system", RunErrorLine)
       /\ jobs' = update_job_status(jobs, tk.job, "failed", None, None)
       /\ tasks' = [tasks EXCEPT ![t] = [tk EXCEPT !.pc = "stopped"]]
       /\ UNCHANGED <<logs, listeners, received>>
       /\ UNCHANGED <<clock, sessions, dependencies, auto_exploit, scheduled, conn>>

(* what the process of a call does, and what the call itself does *)
ProcNext(t, lines, maxlines) ==
    \/ \E s \in Streams, raw \in lines : ProcWrite(t, s, raw, maxlines)
    \/ \E c \in ExitCodes : ProcExit(t, c)

RunNext(t) ==
    \/ Spawn(t)
    \/ \E s \in Streams : ReadPersist(t, s)
    \/ \E s \in Streams : ReadMirror(t, s)
    \/ \E s \in Streams : ReadNotify(t, s)
    \/ \E s \in Streams : ReadEOF(t, s)
    \/ Timeout(t)
    \/ TimeoutFinish(t)
    \/ WaitExit(t)

(* Spec: jobs are created, run directly and through the pipeline, several
   calls at a time, also on the same job. *)
Next ==
    \/ \E c \in Commands : CreateJob(c)
    \/ \E t \in TaskIds, j \in JobIds, to \in BOOLEAN : RunJob(t, j, to)
    \/ \E t \in TaskIds, j \in JobIds : RunAndProcess(t, j)
    \/ \E t \in TaskIds : ProcNext(t, RawLines, MaxLines)
    \/ \E t \in TaskIds : RunNext(t)
    \/ \E t \in TaskIds : Process(t)
    \/ \E t \in TaskIds : RunFailed(t)

Spec == Init /\ [][Next]_vars

(* SpecRun: one call of run_job on one of the jobs created, with or
   without timeout, on longer outputs. *)
InitRun ==
    /\ clock = 0
    /\ sessions = <<>>
    /\ dependencies = <<>>
    /\ auto_exploit = FALSE
    /\ scheduled = <<>>
    /\ conn = IdleConn
    /\ jobs = <<>>
    /\ outputs = <<>>
    /\ logs = [j \in JobIds |-> <<>>]
    /\ listeners = [j \in JobIds |-> <<>>]
    /\ received = [cb \in Callbacks |-> <<>>]
    /\ tasks = [t \in {1} |-> IdleTask]

NextRun ==
    \/ \E c \in Commands : CreateJob(c)
    \/ \E j \in JobIds, to \in BOOLEAN : RunJob(1, j, to)
    \/ ProcNext(1, RunRawLines, MaxRunLines)
    \/ \E c \in ExitCodes : ProcExitUnawaited(1, c)
    \/ DeadlinePasses(1)
    \/ RunNext(1)

SpecRun == InitRun /\ [][NextRun]_vars

(* SpecListen: two jobs have been created; callbacks are registered for them
   at any time, before and during the one call of run_job. *)
ListenJobs == create_job(create_job(<<>>, "job", <<"tool">>, [phase |-> "discovery"]),
                         "job", <<"tool">>, [phase |-> "discovery"])

InitListen ==
    /\ clock = 0
    /\ sessions = <<>>
    /\ dependencies = <<>>
    /\ auto_exploit = FALSE
    /\ scheduled = <<>>
    /\ conn = IdleConn
    /\ jobs = ListenJobs
    /\ outputs = <<>>
    /\ logs = [j \in DOMAIN ListenJobs |-> <<>>]
    /\ listeners = [j \in DOMAIN ListenJobs |-> <<>>]
    /\ received = [cb \in Callbacks |-> <<>>]
    /\ tasks = [t \in {1} |-> IdleTask]

NextListen ==
    \/ \E j \in DOMAIN listeners, cb \in Callbacks : AddListener(j, cb)
    \/ \E j \in DOMAIN jobs, to \in BOOLEAN : RunJob(1, j, to)
    \/ ProcNext(1, ListenRawLines, MaxRunLines)
    \/ RunNext(1)

SpecListen == InitListen /\ [][NextListen]_vars

(* SpecStore: the JobStore alone, called by one caller at a time, while the
   clock advances.  SpecOutputs: the same with more kinds of output records
   and without status updates. *)
StoreLines == {Text(DomainLine), Text(BadUtf8)}
StoreSources == {"stdout", "system"}
StoreStatuses == {"running", "finished"}
StoreMetas == {None, Some([phase |-> "exploit"]), Some([note |-> "n"])}

UpdateStatus(job_id, status, exit_code, meta) ==
    /\ jobs' = update_job_status(jobs, job_id, status, exit_code, meta)
    /\ UNCHANGED <<outputs, logs, listeners, received, tasks>>
    /\ UNCHANGED <<clock, sessions, dependencies, auto_exploit, scheduled, conn>>

AppendOutput(job_id, source, line) ==
    /\ Len(outputs) < MaxOutputs
    /\ outputs' = append_output(outputs, job_id, source, line)
    /\ UNCHANGED <<jobs, logs, listeners, received, tasks>>
    /\ UNCHANGED <<clock, sessions, dependencies, auto_exploit, scheduled, conn>>

(* time passes between two calls *)
Tick ==
    /\ clock < MaxClock
    /\ clock' = clock + 1
    /\ UNCHANGED <<jobs, outputs, logs, listeners, received, tasks>>
    /\ UNCHANGED <<sessions, dependencies, auto_exploit, scheduled, conn>>

NextStore ==
    \/ CreateJob("tool")
    \/ \E j \in JobIds, st \in StoreStatuses, c \in {None, Some(0)}, m \in StoreMetas :
          UpdateStatus(j, st, c, m)
    \/ \E j \in JobIds : AppendOutput(j, "stdout", Text(DomainLine))
    \/ Tick

SpecStore == InitRun /\ [][NextStore]_vars

NextOutputs ==
    \/ CreateJob("tool")
    \/ \E j \in JobIds, src \in StoreSources, l \in StoreLines : AppendOutput(j, src, l)
    \/ Tick

SpecOutputs == InitRun /\ [][NextOutputs]_vars

(* SpecThreads: the request thread calls create_job (web_ui.py line 189)
   while the loop thread calls append_output and update_job_status, on the
   one connection.  A write is cur.execute(...) followed by
   self._conn.commit(); the sqlite3 module begins a transaction before the
   statement when it sees none open, reads the connection's last insert
   rowid into the cursor after an INSERT, and commits when it sees a
   transaction open; the interpreter lets the other thread run between
   these steps. *)
ThreadOps(th) == IF th = "request" THEN {"create_job"}
                 ELSE {"append_output", "update_job_status"}

(* execute, first part: the thread reads whether a transaction is open *)
ConnCheckTxn(th, op) ==
    /\ conn.th[th].pc = "idle"
    /\ op = "create_job" => Len(jobs) < MaxJobs
    /\ op = "append_output" => Len(outputs) < MaxOutputs
    /\ op = "update_job_status" => jobs # <<>>
    /\ conn' = [conn EXCEPT !.th[th] = [IdleCall EXCEPT !.pc = "execute", !.op = op,
                                                       !.saw = conn.in_txn]]
    /\ UNCHANGED <<jobs, outputs, logs, listeners, received, tasks>>
    /\ UNCHANGED <<clock, sessions, dependencies, auto_exploit, scheduled>>

(* execute, second part: BEGIN when no transaction was seen, which fails
   when the other thread has begun one meanwhile; then the statement *)
ConnExecute(th) ==
    LET c == conn.th[th]
    IN /\ c.pc = "execute"
       /\ IF ~c.saw /\ conn.in_txn
          THEN \* OperationalError: cannot start a transaction within a transaction
               /\ conn' = [conn EXCEPT !.th[th] = [c EXCEPT !.pc = "idle", !.result = "raised"]]
               /\ UNCHANGED <<jobs, outputs>>
          ELSE CASE c.op = "create_job" ->
                      /\ jobs' = create_job(jobs, "job", <<"tool">>, [phase |-> "discovery"])
                      /\ conn' = [conn EXCEPT !.in_txn = TRUE,
                                              !.last_insert_rowid = lastrowid(jobs'),
                                              !.th[th] = [c EXCEPT !.pc = "lastrowid",
                                                                   !.row = lastrowid(jobs')]]
                      /\ UNCHANGED outputs
                 [] c.op = "append_output" ->
                      /\ outputs' = append_output(outputs, 1, "stdout", Text(DomainLine))
                      /\ conn' = [conn EXCEPT !.in_txn = TRUE,
                                              !.last_insert_rowid = Len(outputs'),
                                              !.th[th] = [c EXCEPT !.pc = "commit",
                                                                   !.row = Len(outputs')]]
                      /\ UNCHANGED jobs
                 [] OTHER ->
                      /\ jobs' = update_job_status(jobs, 1, "running", None, None)
                      /\ conn' = [conn EXCEPT !.in_txn = TRUE,
                                              !.th[th] = [c EXCEPT !.pc = "commit"]]
                      /\ UNCHANGED outputs
       /\ UNCHANGED <<logs, listeners, received, tasks>>
       /\ UNCHANGED <<clock, sessions, dependencies, auto_exploit, scheduled>>

(* execute, last part after an INSERT: cursor.lastrowid is read from the
   connection *)
ConnLastRowId(th) ==
    LET c == conn.th[th]
    IN /\ c.pc = "lastrowid"
       /\ conn' = [conn EXCEPT !.th[th] = [c EXCEPT !.pc = "commit",
                                                    !.lastrowid = conn.last_insert_rowid]]
       /\ UNCHANGED <<jobs, outputs, logs, listeners, received, tasks>>
       /\ UNCHANGED <<clock, sessions, dependencies, auto_exploit, scheduled>>

(* commit, first part: nothing to do when no transaction is seen open *)
ConnCommitCheck(th) ==
    LET c == conn.th[th]
    IN /\ c.pc = "commit"
       /\ conn' = [conn EXCEPT !.th[th] =
              IF conn.in_txn THEN [c EXCEPT !.pc = "committing"]
              ELSE [c EXCEPT !.pc = "idle", !.result = "returned"]]
       /\ UNCHANGED <<jobs, outputs, logs, listeners, received, tasks>>
       /\ UNCHANGED <<clock, sessions, dependencies, auto_exploit, scheduled>>

(* commit, second part: COMMIT, which fails when the other thread has
   committed meanwhile *)
ConnCommit(th) ==
    LET c == conn.th[th]
    IN /\ c.pc = "committing"
       /\ conn' = IF conn.in_txn
                  THEN [conn EXCEPT !.in_txn = FALSE,
                                    !.th[th] = [c EXCEPT !.pc = "idle", !.result = "returned"]]
                  ELSE \* OperationalError: cannot commit - no transaction is active
                       [conn EXCEPT !.th[th] = [c EXCEPT !.pc = "idle", !.result = "raised"]]
       /\ UNCHANGED <<jobs, outputs, logs, listeners, received, tasks>>
       /\ UNCHANGED <<clock, sessions, dependencies, auto_exploit, scheduled>>

NextThreads ==
    \/ \E th \in Threads : \E op \in ThreadOps(th) : ConnCheckTxn(th, op)
    \/ \E th \in Threads : ConnExecute(th)
    \/ \E th \in Threads : ConnLastRowId(th)
    \/ \E th \in Threads : ConnCommitCheck(th)
    \/ \E th \in Threads : ConnCommit(th)

SpecThreads == InitRun /\ [][NextThreads]_vars

(* SpecRules: pipelines whose tools print what the parsers and rules react
   to.  A caller starts one pipeline on a job it created (or on an id that
   names no job); the loop starts the first follow-up job the rules
   scheduled, a tool that prints nothing.  The exploit gate is switched at any
   time. *)
MaxRuleLines == 2
RuleRawLines == {<<XmlOneHost, "LF">>, <<XmlThreeHosts, "LF">>, <<AsrepText, "LF">>,
                 <<CmeCredText, "LF">>, <<CmeNoPassText, "LF">>,
                 <<CmeBadAuthText, "LF">>, <<SecretsdumpText, "LF">>, DomainLine,
                 Overlong}
RuleCommands == Commands
RuleJobIds == 1..(MaxJobs + 2 * Len(EnumJobs("h")) + MaxRuleLines)

(* Orchestrator.set_auto_exploit *)
SetAutoExploit(allow) ==
    /\ auto_exploit' = allow
    /\ UNCHANGED <<jobs, outputs, logs, listeners, received, tasks, clock, sessions,
                   dependencies, scheduled, conn>>

InitRules ==
    /\ clock = 0
    /\ sessions = <<>>
    /\ dependencies = <<>>
    /\ auto_exploit = FALSE
    /\ scheduled = <<>>
    /\ conn = IdleConn
    /\ jobs = <<>>
    /\ outputs = <<>>
    /\ logs = [j \in RuleJobIds |-> <<>>]
    /\ listeners = [j \in RuleJobIds |-> <<>>]
    /\ received = [cb \in Callbacks |-> <<>>]
    /\ tasks = [t \in {1, 2} |-> IdleTask]

PipelineNext(t) ==
    \/ Spawn(t)
    \/ \E s \in Streams : ReadPersist(t, s)
    \/ \E s \in Streams : ReadMirror(t, s)
    \/ \E s \in Streams : ReadNotify(t, s)
    \/ \E s \in Streams : ReadEOF(t, s)
    \/ WaitExit(t)
    \/ Process(t)
    \/ RunFailed(t)

NextRules ==
    \/ \E c \in RuleCommands : CreateJob(c)
    \/ \E j \in JobIds : RunAndProcess(1, j)
    \/ StartScheduled(2)
    \/ \E b \in BOOLEAN : SetAutoExploit(b)
    \/ ProcNext(1, RuleRawLines, MaxRuleLines)
    \/ \E c \in ExitCodes : ProcExit(2, c)
    \/ \E t \in {1, 2} : PipelineNext(t)

SpecRules == InitRules /\ [][NextRules]_vars

(* SpecSessions: two jobs exist; two pipelines are started on them by
   callers, on the same job or on different ones, at the same time or one
   after the other, and their tools print what the session rules react to. *)
SessionRawLines == {<<AsrepText, "LF">>, <<CmeCredText, "LF">>}

InitSessions ==
    /\ clock = 0
    /\ sessions = <<>>
    /\ dependencies = <<>>
    /\ auto_exploit = FALSE
    /\ scheduled = <<>>
    /\ conn = IdleConn
    /\ jobs = ListenJobs
    /\ outputs = <<>>
    /\ logs = [j \in DOMAIN ListenJobs |-> <<>>]
    /\ listeners = [j \in DOMAIN ListenJobs |-> <<>>]
    /\ received = [cb \in Callbacks |-> <<>>]
    /\ tasks = [t \in {1, 2} |-> IdleTask]

NextSessions ==
    \/ \E t \in {1, 2}, j \in DOMAIN ListenJobs : RunAndProcess(t, j)
    \/ \E t \in {1, 2} : ProcNext(t, SessionRawLines, MaxLines)
    \/ \E t \in {1, 2} : Spawn(t)
    \/ \E t \in {1, 2}, s \in Streams : ReadPersist(t, s)
    \/ \E t \in {1, 2}, s \in Streams : ReadMirror(t, s)
    \/ \E t \in {1, 2}, s \in Streams : ReadNotify(t, s)
    \/ \E t \in {1, 2}, s \in Streams : ReadEOF(t, s)
    \/ \E t \in {1, 2} : WaitExit(t)
    \/ \E t \in {1, 2} : Process(t)

SpecSessions == InitSessions /\ [][NextSessions]_vars

(* SpecLive: two jobs in flight.  Job 1 is run by any call, direct (with or
   without timeout) or through the pipeline; its command may be missing or
   not executable, its tool may print a line that makes an analyzer or the
   reader raise, and nothing is assumed about when or whether its process
   writes, closes its pipes or exits.  Job 2 is a tool run through the
   pipeline whose process does close its pipes and exit.  The event loop
   runs every callback that is ready. *)
LiveLinesA == {DomainLine, Overlong, <<CmeBadAuthText, "LF">>}
LiveLinesB == {DomainLine}

InitLive ==
    /\ clock = 0
    /\ sessions = <<>>
    /\ dependencies = <<>>
    /\ auto_exploit = FALSE
    /\ scheduled = <<>>
    /\ conn = IdleConn
    /\ \E c \in Commands :
          jobs = create_job(create_job(<<>>, "job", <<c>>, [phase |-> "discovery"]),
                            "job", <<"tool">>, [phase |-> "discovery"])
    /\ outputs = <<>>
    /\ logs = [j \in {1, 2} |-> <<>>]
    /\ listeners = [j \in {1, 2} |-> <<>>]
    /\ received = [cb \in Callbacks |-> <<>>]
    /\ tasks = [t \in {1, 2} |-> IdleTask]

NextLive ==
    \/ \E to \in BOOLEAN : RunJob(1, 1, to)
    \/ RunAndProcess(1, 1)
    \/ RunAndProcess(2, 2)
    \/ ProcNext(1, LiveLinesA, MaxLines)
    \/ ProcNext(2, LiveLinesB, MaxLines)
    \/ \E t \in {1, 2} : RunNext(t)
    \/ \E t \in {1, 2} : Process(t)
    \/ \E t \in {1, 2} : RunFailed(t)

(* a callback of the event loop that is ready: a step of run_job, of a
   reader, or of the pipeline after run_job *)
LoopNext ==
    \E t \in {1, 2} :
        \/ Spawn(t)
        \/ \E s \in Streams : ReadPersist(t, s) \/ ReadMirror(t, s) \/ ReadNotify(t, s)
        \/ TimeoutFinish(t)
        \/ WaitExit(t)
        \/ Process(t)
        \/ RunFailed(t)

(* the loop does not stay idle while a callback is ready *)
LoopFair == WF_vars(LoopNext)

(* the process of call t closes its pipes and exits *)
ProcessEnds(t) ==
    WF_vars((\E s \in Streams : ReadEOF(t, s)) \/ (\E c \in ExitCodes : ProcExit(t, c)))

SpecLive == InitLive /\ [][NextLive]_vars /\ LoopFair /\ ProcessEnds(2)

(* ============================== claims ================================= *)
Statuses == {"pending", "running", "finished", "failed", "timeout"}
Terminal == {"finished", "failed", "timeout"}
Rank(st) == IF st = "pending" THEN 0 ELSE IF st = "running" THEN 1 ELSE 2
Forward(a, b) == a = b \/ Rank(a) < Rank(b)

(* the calls of run_job (direct or through the pipeline) started on job j *)
CallsOn(j) == {t \in DOMAIN tasks : tasks[t].pc # "idle" /\ tasks[t].job = j}
Texts(raws) == [i \in DOMAIN raws |-> Text(raws[i])]
Lines(recs) == [i \in DOMAIN recs |-> recs[i].line]
TimedOut(t) == \E s \in Streams : tasks[t].rd[s] = "cancelled"
RecordsOf(j, source) ==
    SelectSeq(fetch_outputs(outputs, j), LAMBDA o : o.source = source)

(* C1 as stated: a job's status is always one of the five values and only
   moves pending -> running -> terminal; a terminal status never changes,
   whatever sequence of create_job, run_job and pipeline operations runs. *)
C1_StatusMonotonic ==
    [][\A j \in DOMAIN jobs :
          jobs'[j].status \in Statuses /\ Forward(jobs[j].status, jobs'[j].status)]_vars

(* C1 amended: a job's status is always one of the five values, and as long
   as run_job has been called at most once for the job it only moves
   pending -> running -> terminal and a terminal status never changes. *)
C1_MonotonicWhenRunOnce ==
    /\ [](\A j \in DOMAIN jobs : jobs[j].status \in Statuses)
    /\ [][\A j \in DOMAIN jobs :
            Cardinality(CallsOn(j)') <= 1 => Forward(jobs[j].status, jobs'[j].status)]_vars

(* the pipeline has attached a parser result to a finished job run once *)
C1_Witness ==
    \E t \in DOMAIN tasks :
        /\ tasks[t].orch /\ tasks[t].pc = "done" /\ tasks[t].parsed # {}
        /\ Cardinality(CallsOn(tasks[t].job)) = 1
        /\ jobs[tasks[t].job].status = "finished"
        /\ "parsers" \in DOMAIN jobs[tasks[t].job].meta

(* C2 as stated: once the only run of a job has returned, also after the
   pipeline has attached parser results, status is terminal and
   status = finished iff exit_code = 0. *)
C2_FinishedIffExitZero ==
    \A t \in DOMAIN tasks :
        (tasks[t].pc \in {"returned", "done"} /\ Cardinality(CallsOn(tasks[t].job)) = 1)
        => LET job == jobs[tasks[t].job]
           IN /\ job.status \in Terminal
              /\ job.status = "finished" <=> job.exit_code = Some(0)

(* C3: exit_code is present only with status finished or failed; it is
   absent while pending or running and with status timeout. *)
C3_ExitCodeOnlyWhenFinishedOrFailed ==
    \A j \in DOMAIN jobs :
        ~IsNone(jobs[j].exit_code) => jobs[j].status \in {"finished", "failed"}

(* a run returned 0 for the job and a later run has marked it running *)
C3_Witness ==
    \E t, u \in DOMAIN tasks :
        /\ t # u /\ tasks[t].job = tasks[u].job
        /\ tasks[t].pc = "returned" /\ tasks[t].ret = Some(0)
        /\ tasks[u].pc = "spawn"
        /\ jobs[tasks[u].job].status = "running"
        /\ IsNone(jobs[tasks[u].job].exit_code)

(* C4: a call of run_job on a job whose executable is not found returns -1
   and leaves the job failed with exit_code -1, exactly one output record,
   a system record saying "command not found", and no process. *)
C4_CommandNotFound ==
    \A t \in DOMAIN tasks :
        LET tk == tasks[t]
        IN (tk.pc \in {"reading", "wait_exit", "killing", "returned", "raised"}
              /\ jobs[tk.job].command[1] = "missing")
           => /\ tk.pc = "returned" /\ tk.ret = Some(-1) /\ tk.proc = "none"
              /\ jobs[tk.job].status = "failed"
              /\ jobs[tk.job].exit_code = Some(-1)
              /\ Lines(fetch_outputs(outputs, tk.job)) = <<NotFoundLine>>
              /\ Lines(RecordsOf(tk.job, "system")) = <<NotFoundLine>>
              /\ logs[tk.job] = <<>>

C4_Witness ==
    \E t \in DOMAIN tasks :
        /\ tasks[t].pc = "returned" /\ tasks[t].ret = Some(-1)
        /\ jobs[tasks[t].job].command[1] = "missing"
        /\ jobs[tasks[t].job].status = "failed"
        /\ Len(fetch_outputs(outputs, tasks[t].job)) = 1

(* C5 as stated: when a call of run_job on an existing job has ended, by
   returning or by raising, the job has a terminal status, never running;
   after a spawn failure of any kind the job is failed with exit_code -1
   and one system line. *)
C5_EndsInTerminalStatus ==
    \A t \in DOMAIN tasks :
        LET tk == tasks[t]
        IN tk.pc \in {"returned", "raised"}
           => /\ jobs[tk.job].status \in Terminal
              /\ jobs[tk.job].command[1] \in {"missing", "notexec"}
                 => /\ jobs[tk.job].status = "failed"
                    /\ jobs[tk.job].exit_code = Some(-1)
                    /\ Len(RecordsOf(tk.job, "system")) = 1

(* C6: once the timeout of a call has fired with a reader still reading, the
   process is no longer running, and when the call has returned the job has
   status timeout, no exit_code, and exactly one system record, which
   mentions the timeout. *)
C6_TimeoutKills ==
    \A t \in DOMAIN tasks :
        LET tk == tasks[t]
        IN TimedOut(t)
           => /\ tk.proc # "alive"
              /\ tk.pc \in {"killing", "returned"}
              /\ tk.pc = "killing"
                 => jobs[tk.job].status = "running" /\ RecordsOf(tk.job, "system") = <<>>
              /\ tk.pc = "returned"
                 => /\ tk.ret = Some(-1)
                    /\ jobs[tk.job].status = "timeout"
                    /\ IsNone(jobs[tk.job].exit_code)
                    /\ Lines(RecordsOf(tk.job, "system")) = <<TimeoutLine>>

(* a call timed out after one line was captured and has returned *)
C6_Witness ==
    \E t \in DOMAIN tasks :
        /\ TimedOut(t) /\ tasks[t].pc = "returned" /\ tasks[t].proc = "killed"
        /\ jobs[tasks[t].job].status = "timeout"
        /\ Len(RecordsOf(tasks[t].job, "stdout")) = 1

(* C7 as stated: when the time given as timeout has passed, the process of
   the call is not running any more, also when both pipes were at EOF. *)
C7_KilledWhenDeadlinePassed ==
    \A t \in DOMAIN tasks :
        (tasks[t].timeout /\ tasks[t].elapsed) => tasks[t].proc # "alive"

(* C8 as stated: when the process of a call has exited with code c and no
   timeout fired, the call is at proc.wait() or has returned; once returned
   it returned c, every line written is an output record of its stream, in
   order, status is finished iff c = 0 and exit_code is c; and a terminal
   status is only stored when both readers have reached EOF. *)
C8_ExitCodeAndLines ==
    \A t \in DOMAIN tasks :
        LET tk == tasks[t]
        IN /\ (tk.proc = "exited" /\ ~TimedOut(t))
              => /\ tk.pc \in {"wait_exit", "returned"}
                 /\ tk.pc = "returned"
                    => /\ tk.ret = Some(tk.code)
                       /\ jobs[tk.job].exit_code = Some(tk.code)
                       /\ jobs[tk.job].status = (IF tk.code = 0 THEN "finished" ELSE "failed")
                       /\ \A s \in Streams :
                             Lines(RecordsOf(tk.job, s)) = Texts(tk.wrote[s])
           /\ (tk.proc # "none" /\ ~TimedOut(t) /\ jobs[tk.job].status \in Terminal)
              => \A s \in Streams : tk.rd[s] = "eof"

(* the same for processes that write no line longer than the stream limit *)
C8_ShortLines ==
    \A t \in DOMAIN tasks :
        (\A s \in Streams : \A i \in DOMAIN tasks[t].wrote[s] : ~TooLong(tasks[t].wrote[s][i]))
        => LET tk == tasks[t]
           IN /\ (tk.proc = "exited" /\ ~TimedOut(t))
                 => /\ tk.pc \in {"wait_exit", "returned"}
                    /\ tk.pc = "returned"
                       => /\ tk.ret = Some(tk.code)
                          /\ jobs[tk.job].exit_code = Some(tk.code)
                          /\ jobs[tk.job].status = (IF tk.code = 0 THEN "finished" ELSE "failed")
                          /\ \A s \in Streams :
                                Lines(RecordsOf(tk.job, s)) = Texts(tk.wrote[s])
              /\ (tk.proc # "none" /\ ~TimedOut(t) /\ jobs[tk.job].status \in Terminal)
                 => \A s \in Streams : tk.rd[s] = "eof"

Count(cb, cbs) == Cardinality({i \in DOMAIN cbs : cbs[i] = cb})
Copies(n, e) == [i \in 1..n |-> e]
StreamRecords(outs) == SelectSeq(outs, LAMBDA o : o.source \in Streams)

(* what one step does to the line the reader of stream s of call t holds *)
C9_Step(t, s) ==
    LET tk == tasks[t]
        after == tasks'[t]
        j == tk.job
        text == Text(Head(tk.pipe[s]))
    IN /\ (tk.rd[s] = "wait" /\ after.rd[s] = "persisted")
          => /\ outputs' = Append(outputs, [job_id |-> j, source |-> s, line |-> text])
             /\ after.pipe[s] = Tail(tk.pipe[s]) /\ after.cur[s] = text
             /\ logs' = logs /\ received' = received
       /\ tk.rd[s] = "persisted"
          => /\ after.rd[s] \in {"persisted", "mirrored"}
             /\ after.pipe = tk.pipe /\ after.cur = tk.cur
             /\ outputs' = outputs /\ received' = received
             /\ after.rd[s] = "mirrored"
                => logs' = [logs EXCEPT ![j] = Append(@, LogLine(s, tk.cur[s]))]
       /\ tk.rd[s] = "mirrored"
          => /\ after.rd[s] \in {"mirrored", "wait"}
             /\ after.pipe = tk.pipe
             /\ outputs' = outputs /\ logs' = logs
             /\ after.rd[s] = "wait"
                => \A cb \in Callbacks :
                      received'[cb] = received[cb]
                          \o Copies(Count(cb, listeners[j]), Event(j, s, tk.cur[s]))
       /\ after.pipe[s] # tk.pipe[s] /\ Len(after.pipe[s]) <= Len(tk.pipe[s])
          => tk.rd[s] = "wait"

(* C9: a line is taken from a pipe only by a reader that holds no line; the
   reader then appends exactly one output record, then exactly one line to
   the job's mirror log, then hands exactly one event to each registration
   of a callback for that job id and to no other callback, and only then
   reads on; nothing else appends a stdout/stderr record, a log line or an
   event; every event received is already among the job's outputs. *)
C9_PersistMirrorNotify ==
    /\ [](\A cb \in Callbacks : \A i \in DOMAIN received[cb] :
             \E k \in DOMAIN outputs :
                 Event(outputs[k].job_id, outputs[k].source, outputs[k].line)
                     = received[cb][i])
    /\ [][/\ \A t \in DOMAIN tasks : \A s \in Streams : C9_Step(t, s)
          /\ StreamRecords(outputs') # StreamRecords(outputs)
             => \E t \in DOMAIN tasks : \E s \in Streams :
                   tasks[t].rd[s] = "wait" /\ tasks'[t].rd[s] = "persisted"
          /\ logs' # logs
             => \E t \in DOMAIN tasks : \E s \in Streams :
                   tasks[t].rd[s] = "persisted" /\ tasks'[t].rd[s] = "mirrored"
          /\ received' # received
             => \E t \in DOMAIN tasks : \E s \in Streams :
                   tasks[t].rd[s] = "mirrored" /\ tasks'[t].rd[s] = "wait"]_vars

(* a line of job 1 was delivered to its listener cbA and not to cbB, which
   is registered for job 2 only *)
C9_Witness ==
    /\ tasks[1].job = 1 /\ tasks[1].pc = "returned"
    /\ listeners[1] = <<"cbA">> /\ listeners[2] = <<"cbB">>
    /\ Len(received["cbA"]) = 2 /\ received["cbB"] = <<>>
    /\ Len(logs[1]) = 2 /\ Len(fetch_outputs(outputs, 1)) = 2

(* C10: when a callback of the job raises, the callbacks after it still get
   the event and the reader goes on to its next line with the job untouched;
   no reader and no call ever ends with the callback's exception; and a call
   that ran to the exit of its process returned the exit code, recorded every
   line written and stored the status the exit code gives. *)
C10_ListenerIsolated ==
    /\ [](\A t \in DOMAIN tasks :
             /\ tasks[t].pc # "raised"
             /\ \A s \in Streams : tasks[t].rd[s] # "raised"
             /\ (tasks[t].pc = "returned" /\ ~TimedOut(t))
                => /\ tasks[t].ret = Some(tasks[t].code)
                   /\ jobs[tasks[t].job].status
                         = (IF tasks[t].code = 0 THEN "finished" ELSE "failed")
                   /\ \A s \in Streams :
                         Lines(RecordsOf(tasks[t].job, s)) = Texts(tasks[t].wrote[s]))
    /\ [][\A t \in DOMAIN tasks : \A s \in Streams :
             LET cbs == listeners[tasks[t].job]
             IN (/\ tasks[t].rd[s] = "mirrored" /\ tasks'[t].rd[s] # "mirrored"
                 /\ \E i \in DOMAIN cbs : cbs[i] \in RaisingCallbacks)
                => /\ tasks'[t].rd[s] = "wait" /\ tasks'[t].pc = tasks[t].pc
                   /\ jobs' = jobs /\ outputs' = outputs
                   /\ \A i \in DOMAIN cbs :
                         /\ Len(received'[cbs[i]]) > Len(received[cbs[i]])
                         /\ received'[cbs[i]][Len(received'[cbs[i]])]
                               = Event(tasks[t].job, s, tasks[t].cur[s])]_vars

(* the raising callback is registered before another one; both got both
   lines of a run that finished with exit code 0 *)
C10_Witness ==
    /\ tasks[1].pc = "returned" /\ tasks[1].ret = Some(0) /\ tasks[1].job = 1
    /\ listeners[1] = <<"cbB", "cbA">>
    /\ Len(received["cbB"]) = 2 /\ Len(received["cbA"]) = 2
    /\ jobs[1].status = "finished"

(* the mirror-log lines of a sequence of output records *)
LogLines(recs) ==
    [i \in DOMAIN recs |-> <<"[", recs[i].source, "] ">> \o recs[i].line \o <<"LF">>]
(* the readers that have stored a line of job j and not yet written it to
   the log *)
Unmirrored(j) ==
    {<<t, s>> \in (DOMAIN tasks) \X Streams :
        tasks[t].job = j /\ tasks[t].rd[s] = "persisted"}
Quiet == \A t \in DOMAIN tasks : \A s \in Streams :
             tasks[t].rd[s] \notin {"persisted", "mirrored"}

(* C11 as stated: whenever no reader is in the middle of a line, the mirror
   log of a job holds one line "[source] text" for every output record of
   the job, system records included, in the order of the record ids. *)
C11_LogMirrorsAllRecords ==
    Quiet => \A j \in DOMAIN jobs : logs[j] = LogLines(fetch_outputs(outputs, j))

(* C11 amended: the mirror log of a job holds one line "[source] text" for
   every stdout and stderr record of the job and nothing else, in the order
   of the record ids; the record a reader has just stored is the only one
   that can be missing, until the reader has written it. *)
C11_LogMirrorsStreamRecords ==
    \A j \in DOMAIN jobs :
        LET recs == StreamRecords(fetch_outputs(outputs, j))
        IN /\ Cardinality(Unmirrored(j)) <= 1
           /\ logs[j] = LogLines(SubSeq(recs, 1, Len(recs) - Cardinality(Unmirrored(j))))

(* two runs of one job: a line was captured in each, one run timed out, so
   the log has two lines and the job has a system record as well *)
C11_Witness ==
    \E j \in DOMAIN jobs :
        /\ Quiet
        /\ Len(logs[j]) = 2
        /\ Len(RecordsOf(j, "system")) >= 1
        /\ Len(StreamRecords(fetch_outputs(outputs, j))) = 2

(* C12: output records are only ever appended, one at a time, each with an
   id above every id given before; fetch_outputs(j) returns exactly the
   records appended for job j, with the source and text they were appended
   with, in ascending id order, which is the order of the appends; the
   records of one source of one job keep their order. *)
C12_OutputsAppendOnly ==
    /\ [](\A j \in JobIds :
             LET f == fetch_outputs(outputs, j)
             IN /\ Len(f) = Cardinality({i \in DOMAIN outputs : outputs[i].job_id = j})
                /\ \A k \in DOMAIN f :
                      /\ f[k].job_id = j /\ f[k].id \in DOMAIN outputs
                      /\ outputs[f[k].id].job_id = j
                      /\ f[k].source = outputs[f[k].id].source
                      /\ f[k].line = outputs[f[k].id].line
                /\ \A k \in 1..(Len(f) - 1) : f[k].id < f[k + 1].id)
    /\ [][/\ Len(outputs') \in {Len(outputs), Len(outputs) + 1}
          /\ \A i \in DOMAIN outputs : outputs'[i] = outputs[i]
          /\ Len(outputs') = Len(outputs) + 1
             => LET r == outputs'[Len(outputs')]
                    rec == [id |-> Len(outputs'), job_id |-> r.job_id,
                            source |-> r.source, line |-> r.line]
                IN \A j \in JobIds :
                      /\ fetch_outputs(outputs', j)
                            = (IF r.job_id = j THEN Append(fetch_outputs(outputs, j), rec)
                               ELSE fetch_outputs(outputs, j))
                      /\ \A k \in DOMAIN fetch_outputs(outputs, j) :
                            fetch_outputs(outputs, j)[k].id < rec.id
                      /\ \A src \in StoreSources :
                            SelectSeq(fetch_outputs(outputs', j), LAMBDA o : o.source = src)
                               = (IF r.job_id = j /\ r.source = src
                                  THEN Append(RecordsOf(j, src), rec)
                                  ELSE RecordsOf(j, src))]_vars

(* records of two jobs were appended in turn, with different sources and
   texts *)
C12_Witness ==
    /\ Len(outputs) = 3
    /\ outputs[1].job_id = 1 /\ outputs[2].job_id = 2 /\ outputs[3].job_id = 1
    /\ outputs[1].source = "stdout" /\ outputs[3].source = "system"
    /\ outputs[1].line # outputs[3].line
    /\ Len(fetch_outputs(outputs, 1)) = 2

(* C13 as stated: a JobStore write called while another thread is inside a
   write never fails, and a create_job call that has returned gave the id of
   the job row it inserted. *)
C13_WritesSerialized ==
    \A th \in Threads :
        LET c == conn.th[th]
        IN /\ c.result # "raised"
           /\ (c.result = "returned" /\ c.op = "create_job")
              => /\ c.lastrowid = c.row
                 /\ c.row \in DOMAIN jobs

(* a call is between marking its job running and writing a terminal status *)
InRun(t) == tasks[t].pc \in {"spawn", "reading", "wait_exit", "killing"}

(* C14 as stated: no two calls on the same job id are at the same time
   between 'mark running' and their terminal status write. *)
C14_OneExecutionPerJob ==
    \A t, u \in DOMAIN tasks :
        (t # u /\ InRun(t) /\ InRun(u)) => tasks[t].job # tasks[u].job

(* C15 as stated: an update_job_status call with meta m leaves the stored
   meta merged with m (m's keys set to m's values, the other stored keys
   kept); a call without meta leaves the meta alone; updated_at is set to
   the time of the call. *)
C15_MetaMergedShallowly ==
    [][\A j \in DOMAIN jobs :
          jobs'[j] # jobs[j]
          => /\ jobs'[j].updated_at = clock
             /\ \E m \in StoreMetas :
                   jobs'[j].meta = (IF IsNone(m) THEN jobs[j].meta
                                    ELSE Val(m) @@ jobs[j].meta)]_vars

(* C16: a create_job call adds exactly one job row; the id it returns is
   positive and above every earlier id; the row is pending, has no
   exit_code and created_at = updated_at = the time of the call; get_job
   returns it and list_jobs lists it; no other job row and no output row
   changes; and no step ever removes a job. *)
C16_CreateJobFresh ==
    [][/\ DOMAIN jobs \subseteq DOMAIN jobs'
       /\ Len(jobs') > Len(jobs)
          => LET id == lastrowid(jobs')
             IN /\ Len(jobs') = Len(jobs) + 1
                /\ id > 0 /\ id \notin DOMAIN jobs
                /\ \A k \in DOMAIN jobs : id > k /\ jobs'[k] = jobs[k]
                /\ jobs'[id].status = "pending" /\ IsNone(jobs'[id].exit_code)
                /\ jobs'[id].created_at = clock /\ jobs'[id].updated_at = jobs'[id].created_at
                /\ get_job(jobs', id) = Some(jobs'[id])
                /\ IsNone(get_job(jobs, id))
                /\ \E k \in DOMAIN list_jobs(jobs', ListLimit) :
                      list_jobs(jobs', ListLimit)[k].id = id
                /\ outputs' = outputs]_vars

(* the second job was created at a later time than the first, which has
   been updated and has an output record *)
C16_Witness ==
    /\ Len(jobs) = 2
    /\ jobs[1].created_at = 0 /\ jobs[2].created_at = 1 /\ jobs[2].updated_at = 1
    /\ jobs[2].status = "pending"
    /\ jobs[1].status = "finished" /\ jobs[1].exit_code = Some(0)
    /\ Len(fetch_outputs(outputs, 1)) = 1
    /\ list_jobs(jobs, ListLimit)[1].id = 2
(* the records a step appends to a table *)
Added(old, new) == SubSeq(new, Len(old) + 1, Len(new))

(* the step of task t in which its pipeline runs the analyzers and the rules *)
ProcessStep(t) == tasks'[t].invoked # tasks[t].invoked

JobRecords(outs, j) == SelectSeq(outs, LAMBDA o : o.job_id = j)

(* C17: when an analyzer raises on a job's outputs, exactly one system record
   naming it is appended to the job, every other registered analyzer is
   still invoked, each result they give is collected (in parsed_results and
   in the job's meta) and used by the rules (the hashes reported become
   sessions), and the job's status is what it was before the analyzers ran. *)
C17_AnalyzerIsolated ==
    [][\A t \in DOMAIN tasks : ProcessStep(t) =>
        LET j == tasks[t].job
            given == JobRecords(outputs, j)
            new == Added(outputs, outputs')
        IN \A i \in DOMAIN ParserNames :
             RunParser(ParserNames[i], given).kind = "raise" =>
               /\ Len(SelectSeq(new, LAMBDA o :
                       o = [job_id |-> j, source |-> "system",
                            line |-> ParserErrorLine(ParserNames[i])])) = 1
               /\ ParserNames[i] \notin tasks'[t].parsed
               /\ \A k \in DOMAIN ParserNames \ {i} :
                     LET m == ParserNames[k]
                         pr == RunParser(m, given)
                     IN /\ Len(SelectSeq(tasks'[t].invoked, LAMBDA n : n = m)) = 1
                        /\ pr.kind = "result" =>
                              /\ m \in tasks'[t].parsed
                              /\ jobs'[j].meta.parsers[m] = pr.value
               /\ LET hp == RunParser("impacket_getnp", given)
                  IN hp.kind = "result" =>
                       /\ Len(sessions') = Len(sessions) + Len(hp.value.asreps)
                       /\ \A q \in DOMAIN hp.value.asreps :
                             LET se == sessions'[Len(sessions) + q]
                             IN se.type = "hash" /\ se.source_job = j
                                /\ se.details = hp.value.asreps[q]
               /\ jobs'[j].status = jobs[j].status]_vars

C17_Witness ==
    \E t \in DOMAIN tasks :
        /\ tasks[t].pc = "done"
        /\ "impacket_getnp" \in tasks[t].parsed
        /\ \E k \in DOMAIN outputs :
              outputs[k] = [job_id |-> tasks[t].job, source |-> "system",
                            line |-> ParserErrorLine("crackmapexec_json")]
        /\ \E q \in DOMAIN sessions :
              sessions[q].type = "hash" /\ sessions[q].source_job = tasks[t].job

(* C18: in each pipeline execution the analyzers are invoked once each and
   the rules once after them; this happens only when run_job has returned, the
   job has a terminal status, and both readers of the run (if the command was
   spawned at all) have reached the end of their stream with nothing left in
   the pipes; the analyzers' results are those on all the records of the job
   in id order, which hold every line the run's process wrote, in order. *)
C18_AnalyzersOnceAfterRun ==
    /\ [](\A t \in DOMAIN tasks : tasks[t].invoked # <<>> =>
            /\ tasks[t].pc = "done"
            /\ tasks[t].invoked = ParserNames \o <<"_apply_rules">>)
    /\ [][\A t \in DOMAIN tasks :
            /\ tasks[t].invoked # <<>> => tasks'[t].invoked = tasks[t].invoked
            /\ ProcessStep(t) =>
                 LET tk == tasks[t]
                     j == tk.job
                     given == JobRecords(outputs, j)
                     signal == {i \in DOMAIN ParserNames :
                                  RunParser(ParserNames[i], given).kind = "result"}
                 IN /\ tk.pc = "returned" /\ ~IsNone(tk.ret)
                    /\ j \in DOMAIN jobs /\ jobs[j].status \in Terminal
                    /\ tk.proc # "none" =>
                          \A s \in Streams : tk.rd[s] = "eof" /\ tk.pipe[s] = <<>>
                    /\ \A s \in Streams : Lines(RecordsOf(j, s)) = Texts(tk.wrote[s])
                    /\ tasks'[t].parsed = {ParserNames[i] : i \in signal}
                    /\ \A i \in signal :
                          jobs'[j].meta.parsers[ParserNames[i]]
                              = RunParser(ParserNames[i], given).value]_vars

C18_Witness ==
    \E t \in DOMAIN tasks :
        /\ tasks[t].pc = "done"
        /\ tasks[t].invoked = ParserNames \o <<"_apply_rules">>
        /\ tasks[t].wrote["stdout"] # <<>> /\ tasks[t].wrote["stderr"] # <<>>
        /\ tasks[t].parsed # {}

(* the step in which the pipeline of task t handles an exception of run_job *)
RunFailedStep(t) ==
    tasks[t].orch /\ tasks[t].pc \in {"raised", "nojob"} /\ tasks'[t].pc # tasks[t].pc

TriggeredBy(j) ==
    {k \in DOMAIN jobs : "triggered_by" \in DOMAIN jobs[k].meta
                          /\ jobs[k].meta.triggered_by = j}

(* C19: when run_job raises inside the pipeline, the pipeline's next and last
   step appends exactly one system record (the error) to the job, sets the
   job's status to failed, and changes nothing else: no job is created or
   scheduled, no session added, no child recorded.  A pipeline that stopped
   this way has invoked no analyzer and no rule, and its job is the source
   of no session and the parent of no job. *)
C19_RunErrorStops ==
    /\ [](\A t \in DOMAIN tasks : tasks[t].pc = "stopped" =>
            /\ tasks[t].invoked = <<>> /\ tasks[t].parsed = {}
            /\ \A q \in DOMAIN sessions : sessions[q].source_job # tasks[t].job
            /\ tasks[t].job \notin DOMAIN dependencies
            /\ TriggeredBy(tasks[t].job) = {})
    /\ [][\A t \in DOMAIN tasks :
            /\ tasks[t].pc = "stopped" => tasks'[t].pc = "stopped"
            /\ RunFailedStep(t) =>
                 LET j == tasks[t].job
                 IN /\ tasks'[t].pc = "stopped"
                    /\ Added(outputs, outputs')
                          = <<[job_id |-> j, source |-> "system", line |-> RunErrorLine]>>
                    /\ j \in DOMAIN jobs =>
                          /\ jobs'[j].status = "failed"
                          /\ jobs' = [jobs EXCEPT ![j] = jobs'[j]]
                    /\ j \notin DOMAIN jobs => jobs' = jobs
                    /\ sessions' = sessions /\ dependencies' = dependencies
                    /\ scheduled' = scheduled]_vars

C19_Witness ==
    \E t \in DOMAIN tasks :
        /\ tasks[t].pc = "stopped"
        /\ tasks[t].job \in DOMAIN jobs
        /\ jobs[tasks[t].job].status = "failed"
        /\ tasks[t].wrote["stdout"] # <<>>
        /\ \E k \in DOMAIN outputs :
              outputs[k] = [job_id |-> tasks[t].job, source |-> "system",
                            line |-> RunErrorLine]

Interesting == {88, 389, 636, 3268, 445}
Qualifies(host) ==
    \E k \in DOMAIN host.ports :
        host.ports[k].state = "open" /\ host.ports[k].port \in Interesting
BatchNames == <<"enum4linux", "ldapdomaindump", "nmap_smb_scripts", "getnpusers",
                "cme_scan">>
ChildrenOf(deps, j) == IF j \in DOMAIN deps THEN deps[j] ELSE <<>>

(* C20: when the rules see a discovery result, the jobs they create are
   exactly five per listed host that has an open port in the interesting
   set, in the order of the hosts: the five enumeration jobs, pending, with
   the host as target and in their command, tagged with the triggering job,
   appended in order to the triggering job's children and to the tasks to
   start.  Hosts without such a port (a closed interesting port included)
   get no job: N qualifying hosts make exactly 5*N new jobs. *)
C20_FiveJobsPerAdHost ==
    [][\A t \in DOMAIN tasks : ProcessStep(t) =>
        LET j == tasks[t].job
            disc == RunParser("nmap_xml", JobRecords(outputs, j))
        IN disc.kind = "result" =>
            LET hosts == SelectSeq(disc.value, Qualifies)
                rest == SelectSeq(disc.value, LAMBDA h : ~Qualifies(h))
                made == Added(jobs, jobs')
                ids == [i \in DOMAIN made |-> Len(jobs) + i]
            IN /\ Len(made) = 5 * Len(hosts)
               /\ \A h \in DOMAIN hosts : \A b \in 1..5 :
                     LET job == made[5 * (h - 1) + b]
                     IN /\ job.name = BatchNames[b]
                        /\ job.status = "pending"
                        /\ \E a \in DOMAIN job.command : job.command[a] = hosts[h].ip
                        /\ job.meta.target = hosts[h].ip
                        /\ job.meta.triggered_by = j
               /\ \A r \in DOMAIN rest : \A i \in DOMAIN made :
                     made[i].meta.target # rest[r].ip
               /\ ChildrenOf(dependencies', j) = ChildrenOf(dependencies, j) \o ids
               /\ scheduled' = scheduled \o ids]_vars

C20_Witness ==
    \E t \in DOMAIN tasks :
        /\ tasks[t].pc = "done"
        /\ "nmap_xml" \in tasks[t].parsed
        /\ Len(ChildrenOf(dependencies, tasks[t].job)) = 10
        /\ \A k \in TriggeredBy(tasks[t].job) : jobs[k].meta.target \in {"h1", "h3"}
        /\ \E k \in DOMAIN jobs[tasks[t].job].meta.parsers["nmap_xml"] :
              jobs[tasks[t].job].meta.parsers["nmap_xml"][k].ip = "h2"

(* the items of recovered authentication material an analyzer's result
   reports: the AS-REP hashes of impacket_getnp, the account hashes of
   impacket_secretsdump *)
HashItems(name, pr) ==
    IF pr.kind # "result" THEN <<>>
    ELSE IF name = "impacket_getnp" THEN pr.value.asreps
    ELSE IF name = "impacket_secretsdump" THEN pr.value.hashes
    ELSE <<>>

(* C21: when the rules are applied and an analyzer's result reports hashes,
   every reported item has become a hash session whose source job is the
   triggering job, a system record has been appended to that job in the
   same step, and, no discovery or credential result being present, no job
   has been created or scheduled; for every analyzer that reports hashes. *)
C21_HashesBecomeSessions ==
    [][\A t \in DOMAIN tasks : ProcessStep(t) =>
        LET j == tasks[t].job
            given == JobRecords(outputs, j)
            got == Added(sessions, sessions')
        IN \A i \in DOMAIN ParserNames :
             LET items == HashItems(ParserNames[i], RunParser(ParserNames[i], given))
             IN items # <<>> =>
                  /\ \A q \in DOMAIN items :
                        \E g \in DOMAIN got :
                            /\ got[g].type = "hash"
                            /\ got[g].source_job = j
                            /\ got[g].details = items[q]
                  /\ \E o \in DOMAIN Added(outputs, outputs') :
                        /\ Added(outputs, outputs')[o].job_id = j
                        /\ Added(outputs, outputs')[o].source = "system"
                  /\ (RunParser("nmap_xml", given).kind # "result"
                      /\ RunParser("crackmapexec_json", given).kind # "result")
                       => Len(jobs') = Len(jobs) /\ scheduled' = scheduled]_vars

(* C21 for the one analyzer the rule table reads: the AS-REP hashes of
   impacket_getnp become hash sessions, in order, followed by one summary
   record with their number *)
C21_AsrepsBecomeSessions ==
    [][\A t \in DOMAIN tasks : ProcessStep(t) =>
        LET j == tasks[t].job
            pr == RunParser("impacket_getnp", JobRecords(outputs, j))
            got == SelectSeq(Added(sessions, sessions'), LAMBDA se : se.type = "hash")
            found == SelectSeq(Added(outputs, outputs'), LAMBDA o :
                         o.line[1] = "FOUND ")
        IN IF pr.kind = "result"
           THEN /\ Len(got) = Len(pr.value.asreps)
                /\ \A q \in DOMAIN got :
                      got[q].source_job = j /\ got[q].details = pr.value.asreps[q]
                /\ found = <<[job_id |-> j, source |-> "system",
                              line |-> <<"FOUND ", NumStr(Len(got)),
                                         " AS-REP hashes; stored in sessions">>]>>
           ELSE got = <<>> /\ found = <<>>]_vars

(* the jobs a step creates, and the exploitation jobs among all jobs *)
NewJobs == Added(jobs, jobs')
IsExploit(job) == job.name = "psexec"
CredsGiven(j) ==
    LET pr == RunParser("crackmapexec_json", JobRecords(outputs, j))
    IN IF pr.kind = "result" THEN pr.value.valid_credentials ELSE <<>>
CredSessions(ss) == SelectSeq(ss, LAMBDA se : se.type = "cred")

(* C22: the gate starts disabled with no job at all; a step taken while the
   gate is disabled creates no exploitation job, so none exists as long as
   the gate has never been enabled; rules applied to reported credentials
   while the gate is disabled append one cred session per credential, in
   order, and (no discovery result being present) create and schedule no
   job; and a step that changes the gate changes nothing else, which only
   set_auto_exploit does. *)
C22_GateDefaultDeny ==
    /\ (~auto_exploit /\ jobs = <<>>)
    /\ [][/\ ~auto_exploit => \A k \in DOMAIN NewJobs : ~IsExploit(NewJobs[k])
          /\ auto_exploit' # auto_exploit =>
                UNCHANGED <<jobs, outputs, logs, listeners, received, tasks, clock,
                            sessions, dependencies, scheduled, conn>>
          /\ \A t \in DOMAIN tasks : (ProcessStep(t) /\ ~auto_exploit) =>
                LET j == tasks[t].job
                    creds == CredsGiven(j)
                    got == CredSessions(Added(sessions, sessions'))
                IN /\ Len(got) = Len(creds)
                   /\ \A q \in DOMAIN creds :
                         got[q].source_job = j /\ got[q].details = creds[q]
                   /\ RunParser("nmap_xml", JobRecords(outputs, j)).kind # "result"
                        => NewJobs = <<>> /\ scheduled' = scheduled
                                         /\ dependencies' = dependencies]_vars

(* credentials with a password were reported and stored while the gate was
   disabled, and no job but the triggering one exists *)
C22_Witness ==
    /\ ~auto_exploit
    /\ Len(jobs) = 1
    /\ Len(CredSessions(sessions)) = 2
    /\ \A q \in DOMAIN sessions : ~IsNone(sessions[q].details.password)

(* what a step with the gate enabled does with the credentials `creds`
   reported for job j of which `usable` are to be exploited: one cred session
   per credential, one pending psexec job per usable credential, in order,
   made from that credential, tagged with j and appended to j's children *)
ExploitsFor(j, creds, usable) ==
    LET got == CredSessions(Added(sessions, sessions'))
        made == SelectSeq(NewJobs, IsExploit)
        ids == [i \in DOMAIN NewJobs |-> Len(jobs) + i]
    IN /\ Len(got) = Len(creds)
       /\ \A q \in DOMAIN creds : got[q].source_job = j /\ got[q].details = creds[q]
       /\ Len(made) = Len(usable)
       /\ \A q \in DOMAIN usable :
             /\ q \in DOMAIN made
             /\ made[q].status = "pending"
             /\ made[q].command = <<"python3", "-m", "impacket.examples.psexec",
                                    usable[q].ip, Val(usable[q].username),
                                    Val(usable[q].password)>>
             /\ made[q].meta.triggered_by = j
             /\ made[q].meta.target = usable[q].ip
       /\ RunParser("nmap_xml", JobRecords(outputs, j)).kind # "result" =>
             /\ made = NewJobs
             /\ ChildrenOf(dependencies', j) = ChildrenOf(dependencies, j) \o ids
             /\ scheduled' = scheduled \o ids

(* C23 as stated: with the gate enabled, the rules applied to reported
   credentials append one cred session per credential and schedule exactly
   one exploitation job for each reported credential. *)
C23_ExploitPerCredential ==
    [][\A t \in DOMAIN tasks : (ProcessStep(t) /\ auto_exploit) =>
          ExploitsFor(tasks[t].job, CredsGiven(tasks[t].job),
                      CredsGiven(tasks[t].job))]_vars

(* C23 amended: with the gate enabled, the rules applied to reported
   credentials append one cred session per credential and schedule exactly
   one exploitation job for each credential that has a target, a user name
   and a password, as a child of the triggering job; a credential that
   lacks one of them gets its session and no job. *)
C23_ExploitPerUsableCredential ==
    [][\A t \in DOMAIN tasks : (ProcessStep(t) /\ auto_exploit) =>
          ExploitsFor(tasks[t].job, CredsGiven(tasks[t].job),
                      SelectSeq(CredsGiven(tasks[t].job), LAMBDA c :
                          ~IsNone(c.username) /\ ~IsNone(c.password)))]_vars

(* a credential with and one without password were reported with the gate
   enabled: two sessions, one exploitation job, a child of the job *)
C23_Witness ==
    \E t \in DOMAIN tasks :
        /\ tasks[t].pc = "done"
        /\ Len(CredSessions(sessions)) = 2
        /\ \E q \in DOMAIN sessions : IsNone(sessions[q].details.password)
        /\ Len(ChildrenOf(dependencies, tasks[t].job)) = 1
        /\ IsExploit(jobs[ChildrenOf(dependencies, tasks[t].job)[1]])

(* the number of sessions the rules make of a job's records: one per AS-REP
   line and one per reported credential *)
SessionsDue(j) ==
    Len(HashItems("impacket_getnp", RunParser("impacket_getnp", JobRecords(outputs, j))))
        + Len(CredsGiven(j))

(* C24: what list() returns only grows at its end: after every step the
   earlier list is a prefix of the later one; it grows only in a step that
   applies the rules, by exactly one session per reported hash and per
   reported credential, equal ones included; no other step (a reader, the
   end of run_job, the start of a pipeline) changes it. *)
C24_SessionsAppendOnly ==
    [][/\ Len(list(sessions')) >= Len(list(sessions))
       /\ SubSeq(list(sessions'), 1, Len(sessions)) = list(sessions)
       /\ sessions' # sessions => \E t \in DOMAIN tasks : ProcessStep(t)
       /\ \A t \in DOMAIN tasks : ProcessStep(t) =>
             Len(Added(sessions, sessions')) = SessionsDue(tasks[t].job)]_vars

(* two pipelines have added sessions one after the other, and the ledger
   holds two equal sessions *)
C24_Witness ==
    /\ \A t \in DOMAIN tasks : tasks[t].pc = "done"
    /\ Len(list(sessions)) = 3
    /\ \E q \in DOMAIN sessions : \E r \in DOMAIN sessions :
          q < r /\ sessions[q] = sessions[r]

(* C25: whenever a job's status is failed or timeout, the records
   fetch_outputs returns for it include at least one with source system. *)
C25_FailureLeavesSystemRecord ==
    \A j \in DOMAIN jobs :
        jobs[j].status \in {"failed", "timeout"} => RecordsOf(j, "system") # <<>>

(* C26: whatever happens to job 1 (spawn failure, timeout, exception in
   run_job, exception in an analyzer, a process that never ends), once the
   pipeline of job 2 has been started it ends with job 2 in a terminal
   status and with every analyzer and the rules applied. *)
C26_OtherJobsProceed ==
    [](tasks[2].pc # "idle" =>
          <>(/\ tasks[2].pc = "done"
             /\ jobs[2].status \in Terminal
             /\ tasks[2].invoked = ParserNames \o <<"_apply_rules">>))

(* job 2 is through, analyzed and ruled, while the process of job 1 is still
   running and its readers are still waiting for it *)
C26_Witness ==
    /\ tasks[2].pc = "done"
    /\ jobs[2].status \in Terminal
    /\ tasks[2].invoked = ParserNames \o <<"_apply_rules">>
    /\ tasks[1].pc = "reading" /\ tasks[1].proc = "alive"

(* the results attached to a job: meta['parsers'], empty when the key is absent *)
ParsersOf(job) == IF "parsers" \in DOMAIN job.meta THEN job.meta.parsers ELSE <<>>

(* C27: in the step in which a pipeline analyzes its job, every analyzer that
   returns a result has that result under its own name in the job's
   meta['parsers'] afterwards (so a result attached earlier in the run is
   still there when a later one is attached), an analyzer that returns
   nothing or raises adds no key, and every other key of the meta, as given
   to create_job, keeps its value. *)
C27_MetaKeepsResults ==
    [][\A t \in DOMAIN tasks :
          (ProcessStep(t) /\ tasks[t].job \in DOMAIN jobs) =>
             LET j == tasks[t].job
                 fetched == fetch_outputs(outputs, j)
             IN /\ \A i \in DOMAIN ParserNames :
                      LET pr == RunParser(ParserNames[i], fetched)
                      IN IF pr.kind = "result"
                         THEN /\ ParserNames[i] \in DOMAIN ParsersOf(jobs'[j])
                              /\ ParsersOf(jobs'[j])[ParserNames[i]] = pr.value
                         ELSE ParserNames[i] \in DOMAIN ParsersOf(jobs'[j])
                                 => ParserNames[i] \in DOMAIN ParsersOf(jobs[j])
                /\ \A k \in DOMAIN jobs[j].meta \ {"parsers"} :
                      /\ k \in DOMAIN jobs'[j].meta
                      /\ jobs'[j].meta[k] = jobs[j].meta[k]]_vars

(* a job created with a meta key of the operator's has been analyzed, two
   analyzers gave a result, and both results and the key are in its meta *)
C27_Witness ==
    \E t \in DOMAIN tasks :
        /\ tasks[t].pc = "done"
        /\ tasks[t].job \in DOMAIN jobs
        /\ Cardinality(DOMAIN ParsersOf(jobs[tasks[t].job])) >= 2
        /\ DOMAIN jobs[tasks[t].job].meta \ {"parsers"} # {}

(* the ids from a + 1 to b in increasing order *)
IdsAfter(a, b) == [k \in 1..(b - a) |-> a + k]

(* the (parent, position) pairs at which id c stands in the child lists *)
EdgesTo(deps, c) ==
    UNION {{<<p, k>> : k \in {k \in DOMAIN deps[p] : deps[p][k] = c}} : p \in DOMAIN deps}

(* C28: in a step in which the rules of job p call schedule_job with
   parent_job = p, each call creates one new job in status pending, appends
   its id once to the end of p's child list and hands one pipeline for it to
   the loop, and no other child list changes; at all times an id stands at
   most once in all the child lists together, and every child's id is that of
   a job and larger than its parent's, so that no chain of edges comes back
   to where it started. *)
C28_ScheduleAddsOneChild ==
    /\ [](\A p \in DOMAIN dependencies : \A k \in DOMAIN dependencies[p] :
            /\ dependencies[p][k] \in DOMAIN jobs
            /\ dependencies[p][k] > p
            /\ Cardinality(EdgesTo(dependencies, dependencies[p][k])) = 1)
    /\ [][\A t \in DOMAIN tasks : ProcessStep(t) =>
            LET p == tasks[t].job
                ids == IdsAfter(Len(jobs), Len(jobs'))
            IN /\ \A k \in DOMAIN NewJobs : NewJobs[k].status = "pending"
               /\ Added(ChildrenOf(dependencies, p), ChildrenOf(dependencies', p)) = ids
               /\ SubSeq(ChildrenOf(dependencies', p), 1,
                         Len(ChildrenOf(dependencies, p))) = ChildrenOf(dependencies, p)
               /\ \A q \in DOMAIN dependencies' \ {p} :
                     q \in DOMAIN dependencies /\ dependencies'[q] = dependencies[q]
               /\ scheduled' = scheduled \o ids]_vars

(* a job has several children, all of them created by its rules, and the
   pipeline of the first of them has been started *)
C28_Witness ==
    \E p \in DOMAIN dependencies :
        /\ Len(dependencies[p]) >= 2
        /\ tasks[2].pc # "idle" /\ tasks[2].job = dependencies[p][1]

(* C29: every output record's job_id is the id of a job in the jobs table,
   also after run_job or a pipeline was started with an id no job has. *)
C29_OutputsBelongToJobs ==
    \A o \in DOMAIN outputs : outputs[o].job_id \in DOMAIN jobs

(* the step in which job c goes to status running *)
Starts(c) ==
    /\ c \in DOMAIN jobs' /\ jobs'[c].status = "running"
    /\ c \in DOMAIN jobs => jobs[c].status # "running"

(* C30: a step in which the rules create jobs is taken for a parent whose
   status is terminal, before and after the step; and a child of the
   dependency table goes to status running only in a later step, when the
   pipeline that applied the parent's rules has ended, so that the jobs,
   the sessions and the system records of that rule application, the edge
   to the child included, are already stored and are not changed by the step. *)
C30_ChildAfterParentRules ==
    [][/\ \A t \in DOMAIN tasks :
             (ProcessStep(t) /\ NewJobs # <<>>) =>
                /\ jobs[tasks[t].job].status \in Terminal
                /\ jobs'[tasks[t].job].status = jobs[tasks[t].job].status
       /\ \A p \in DOMAIN dependencies' : \A k \in DOMAIN dependencies'[p] :
             Starts(dependencies'[p][k]) =>
                /\ p \in DOMAIN dependencies /\ dependencies'[p] = dependencies[p]
                /\ \E t \in DOMAIN tasks :
                      /\ tasks[t].job = p /\ tasks[t].pc = "done"
                      /\ tasks[t].invoked = ParserNames \o <<"_apply_rules">>
                /\ jobs[p].status \in Terminal
                /\ sessions' = sessions
                /\ outputs' = outputs
                /\ Len(jobs') = Len(jobs)]_vars

(* the first child of a job has been started and is running, after its
   parent's rules created it and its siblings *)
C30_Witness ==
    \E p \in DOMAIN dependencies :
        /\ Len(dependencies[p]) >= 2
        /\ jobs[p].status \in Terminal
        /\ jobs[dependencies[p][1]].status = "running"
        /\ tasks[2].job = dependencies[p][1]

(* C31: a pipeline calls run_job without a timeout, so the job it runs never
   has status timeout: from the start of run_job on its status is running,
   finished or failed, and it is running for as long as the readers of its
   pipes are still at work. *)
C31_PipelineNeverTimesOut ==
    \A t \in DOMAIN tasks :
        (tasks[t].orch /\ tasks[t].job \in DOMAIN jobs) =>
            /\ ~tasks[t].timeout
            /\ ~tasks[t].elapsed
            /\ jobs[tasks[t].job].status \in {"running", "finished", "failed"}
            /\ tasks[t].pc = "reading" => jobs[tasks[t].job].status = "running"

(* job 1, run by run_job with a timeout, has status timeout, while job 2,
   run by a pipeline in the same loop, is through and finished or failed *)
C31_Witness ==
    /\ ~tasks[1].orch /\ tasks[1].timeout /\ jobs[1].status = "timeout"
    /\ tasks[2].orch /\ tasks[2].pc = "done"
    /\ jobs[2].status \in {"finished", "failed"}

====
